---- MODULE Spec2Model ----
(***************************************************************************)
(* A model of the reticulum neural-network engine: tensors (Volume), the   *)
(* layer definitions and their expansion (ActivateLayers), the layer       *)
(* constructors, the network (NewNetwork, Forward, Backward) and the       *)
(* trainer (NewTrainer, Train).                                            *)
(*                                                                         *)
(* Numbers.  A float64 is modelled as a fixed-point number with one        *)
(* decimal digit: the integer n stands for n / Scale, so 10 is 1.0, 1 is   *)
(* 0.1 and 5 is 0.5.  Sums and differences are exact; a product or a       *)
(* quotient is rounded toward zero when it needs more than one decimal     *)
(* digit (IEEE rounding is symmetric in the sign as well).  A Go int is a  *)
(* plain integer.  Go slices are 0-based, sequences here are 1-based: the  *)
(* Go index i is the sequence index i + 1.                                 *)
(***************************************************************************)
EXTENDS Integers, Sequences, FiniteSets, TLC

(***************************************************************************)
(* Bounds of the exploration                                               *)
(***************************************************************************)
\* longest definition list handed to NewNetwork
MaxDefs == 3
\* largest number of Train calls made on one trainer
MaxTrain == 3
\* largest batch size given to a trainer
MaxBatch == 2

(***************************************************************************)
(* float64 as fixed point                                                  *)
(***************************************************************************)
Scale == 10

Abs(a) == IF a < 0 THEN -a ELSE a

\* integer quotient rounded toward zero
Quot(a, b) ==
  IF (a >= 0) = (b > 0) THEN Abs(a) \div Abs(b) ELSE -(Abs(a) \div Abs(b))

\* float64 product a * b
FMul(a, b) == Quot(a * b, Scale)

\* float64 quotient a / b (b # 0)
FDiv(a, b) == Quot(a * Scale, b)

\* float64(n) of a Go int n
ToFloat(n) == n * Scale

RECURSIVE SqrtUpTo(_, _)
SqrtUpTo(n, r) == IF (r + 1) * (r + 1) > n THEN r ELSE SqrtUpTo(n, r + 1)

\* math.Sqrt(a) for a >= 0: sqrt(n/Scale) = sqrt(n*Scale)/Scale
FSqrt(a) == SqrtUpTo(a * Scale, 0)

RECURSIVE FPow(_, _)
\* math.Pow(a, float64(k)) for an int k >= 0
FPow(a, k) == IF k = 0 THEN Scale ELSE FMul(a, FPow(a, k - 1))

RECURSIVE SeqSum(_)
SeqSum(s) == IF s = <<>> THEN 0 ELSE Head(s) + SeqSum(Tail(s))

(***************************************************************************)
(* volume.Dimensions and volume.Volume                                     *)
(***************************************************************************)
NewDimensions(x, y, z) == [X |-> x, Y |-> y, Z |-> z]

\* the zero value of Dimensions (a LayerDef field that was never set)
NoDim == NewDimensions(0, 0, 0)

DimSize(d) == d.X * d.Y * d.Z

\* make([]float64, n, n)
Zeros(n) == [i \in 1..n |-> 0]

\* volume.Options after the option functions ran
VolOpts(hasInit, zero, init, weights) ==
  [HasInitialValue |-> hasInit, Zero |-> zero, InitialValue |-> init, Weights |-> weights]

WithZeros == VolOpts(TRUE, TRUE, 0, <<>>)
WithInitialValue(v) == VolOpts(TRUE, FALSE, v, <<>>)
\* no option: Gaussian initialisation
NoVolOpts == VolOpts(FALSE, FALSE, 0, <<>>)

\* The n values the random source yields for one volume: rnd read cyclically
\* (already scaled by the desired standard deviation).
Gaussian(n, rnd) == [i \in 1..n |-> rnd[((i - 1) % Len(rnd)) + 1]]

\* the random source as another volume constructed later sees it
Rotate(rnd, k) == [i \in 1..Len(rnd) |-> rnd[((i - 1 + k) % Len(rnd)) + 1]]

\* WithWeights(w): <<>> is nil, no array given
WithWeights(w) == VolOpts(FALSE, FALSE, 0, w)

\* the panics of NewVolume: the array is looked at only without an initial value
NewVolumePanics(dim, opts) ==
  /\ ~opts.HasInitialValue
  /\ opts.Weights # <<>>
  /\ (Len(opts.Weights) # dim.Z \/ dim.X # 1 \/ dim.Y # 1)

\* NewVolume where it does not panic
NewVolume(dim, opts, rnd) ==
  LET n == DimSize(dim)
      w == IF opts.HasInitialValue
             THEN IF ~opts.Zero THEN [i \in 1..n |-> opts.InitialValue] ELSE Zeros(n)
             ELSE IF opts.Weights # <<>> THEN [i \in 1..n |-> opts.Weights[i]]
             ELSE Gaussian(n, rnd)
  IN [dim |-> dim, w |-> w, dw |-> Zeros(n)]

\* a copy that keeps the gradients
CloneWithGradients(v) == v

\* Volume.Clone: values copied, gradients zero
Clone(v) == [dim |-> v.dim, w |-> v.w, dw |-> Zeros(DimSize(v.dim))]

\* Volume.CloneAndZero
CloneAndZero(v) == [dim |-> v.dim, w |-> Zeros(DimSize(v.dim)), dw |-> Zeros(DimSize(v.dim))]

\* an index that takes the height for the width
getIndexByHeight(dim, x, y, d) == ((dim.Y * y) + x) * dim.Z + d

\* Volume.getIndex
getIndex(dim, x, y, d) == ((dim.X * y) + x) * dim.Z + d

\* an access without the bounds check of the slice: the index wraps
AccessWrapped(v, op, index, val) ==
  LET i == (index % Len(v.w)) + 1
  IN CASE op \in {"Get", "GetByIndex"} -> [ok |-> TRUE, ret |-> v.w[i], w |-> v.w, dw |-> v.dw]
       [] op \in {"GetGrad", "GetGradByIndex"} -> [ok |-> TRUE, ret |-> v.dw[i], w |-> v.w, dw |-> v.dw]
       [] op \in {"Set", "SetByIndex", "Add", "Mult", "MultByIndex"} ->
            [ok |-> TRUE, ret |-> 0, w |-> [v.w EXCEPT ![i] = val], dw |-> v.dw]
       [] OTHER -> [ok |-> TRUE, ret |-> 0, w |-> v.w, dw |-> [v.dw EXCEPT ![i] = val]]

\* The accessors of Volume on the 0-based linear index: Get, Set, Add, Mult,
\* GetGrad, SetGrad, AddGrad and the ByIndex ones.  An index outside the
\* slice is a panic of the runtime.
Access(v, op, index, val) ==
  LET i == index + 1
      Read(r) == [ok |-> TRUE, ret |-> r, w |-> v.w, dw |-> v.dw]
      Values(x) == [ok |-> TRUE, ret |-> 0, w |-> [v.w EXCEPT ![i] = x], dw |-> v.dw]
      Grads(x) == [ok |-> TRUE, ret |-> 0, w |-> v.w, dw |-> [v.dw EXCEPT ![i] = x]]
  IN IF index < 0 \/ index >= Len(v.w) THEN [ok |-> FALSE, ret |-> 0, w |-> v.w, dw |-> v.dw]
     ELSE CASE op \in {"Get", "GetByIndex"} -> Read(v.w[i])
            [] op \in {"Set", "SetByIndex"} -> Values(val)
            [] op = "Add" -> Values(v.w[i] + val)
            [] op \in {"Mult", "MultByIndex"} -> Values(FMul(v.w[i], val))
            [] op \in {"GetGrad", "GetGradByIndex"} -> Read(v.dw[i])
            [] op \in {"SetGrad", "SetGradByIndex"} -> Grads(val)
            [] op \in {"AddGrad", "AddGradByIndex"} -> Grads(v.dw[i] + val)

\* Volume.ZeroGrad
ZeroGrad(v) == [v EXCEPT !.dw = Zeros(DimSize(v.dim))]

(***************************************************************************)
(* Layer types, configurations and definitions                             *)
(***************************************************************************)
FullyConnected == "fc"
LocalResponseNorm == "lrn"
Dropout == "dropout"
Input == "input"
SoftMax == "softmax"
Regression == "regression"
Conv == "conv"
Pool == "pool"
ReLU == "relu"
Sigmoid == "sigmoid"
Tanh == "tanh"
Maxout == "maxout"
SVM == "svm"
\* the empty LayerType of a definition without activation
NoActivation == ""

\* A LayerConfig is an interface value: kind is its dynamic type, the other
\* fields are the fields of the pointed-to record (0 where the type has none).
\* N is Neurons, Classes or FilterCount, whichever the type has.
ZeroConf(kind) ==
  [kind |-> kind, N |-> 0, L1DecayMult |-> 0, L2DecayMult |-> 0, PreferredBias |-> 0,
   GroupSize |-> 0, DropoutProbability |-> 0, Sx |-> 0, Sy |-> 0, Stride |-> 0, Padding |-> 0]

\* a nil LayerConfig, a nil *DropoutLayerConfig, a nil *MaxoutLayerConfig
NilConf == ZeroConf("nil")

\* NewFullyConnectedLayerConfig(neurons): L1 0.0, L2 1.0, bias 0.0
NewFullyConnectedLayerConfig(neurons) ==
  [ZeroConf("*fullyConnLayerConfig") EXCEPT !.N = neurons, !.L2DecayMult = Scale]

\* NewConvLayerConfig(filters): Sx defaults to the filter count, stride 1
NewConvLayerConfig(filters) ==
  [ZeroConf("*convLayerConfig") EXCEPT !.N = filters, !.Sx = filters, !.Stride = 1,
                                       !.L2DecayMult = Scale]

\* NewPoolLayerConfig(filters): square kernel, stride 2
NewPoolLayerConfig(filters) ==
  [ZeroConf("*poolLayerConfig") EXCEPT !.Sx = filters, !.Sy = filters, !.Stride = 2]

\* the option functions of conv.go, applied to a conv or pool configuration
WithStride(conf, stride) == [conf EXCEPT !.Stride = stride]
WithPadding(conf, pad) == [conf EXCEPT !.Padding = pad]
WithSx(conf, sx) == [conf EXCEPT !.Sx = sx]

\* NewSoftmaxLayerConfig(classes)
NewSoftmaxLayerConfig(classes) == [ZeroConf("*softMaxLayerConfig") EXCEPT !.N = classes]
\* NewSVMLayerConfig(classes)
NewSVMLayerConfig(classes) == [ZeroConf("*svmLayerConfig") EXCEPT !.N = classes]
\* NewRegressionLayerConfig(neurons)
NewRegressionLayerConfig(neurons) == [ZeroConf("*regressionLayerConfig") EXCEPT !.N = neurons]
\* &DropoutLayerConfig{p}
DropoutConfigPtr(p) == [ZeroConf("*DropoutLayerConfig") EXCEPT !.DropoutProbability = p]
\* &MaxoutLayerConfig{k}
MaxoutConfigPtr(k) == [ZeroConf("*MaxoutLayerConfig") EXCEPT !.GroupSize = k]
\* MaxoutLayerConfig{k}: the struct value, not a pointer to it
MaxoutConfigValue(k) == [ZeroConf("MaxoutLayerConfig") EXCEPT !.GroupSize = k]

LayerDef(type, output, activation, dropout, maxout, conf) ==
  [Type |-> type, Input |-> NoDim, Output |-> output, Activation |-> activation,
   Dropout |-> dropout, Maxout |-> maxout, LayerConfig |-> conf]

\* LayerDef{Type: t, LayerConfig: conf}: every other field left at its zero value
BareDef(type, conf) == LayerDef(type, NoDim, NoActivation, NilConf, NilConf, conf)

IsLossType(t) == t \in {SoftMax, SVM, Regression}

(***************************************************************************)
(* layers.ActivateLayers: the expansion of a definition list               *)
(***************************************************************************)
\* an expansion that inserts nothing
ActivateOneBare(def) == [panic |-> FALSE, defs |-> <<def>>]

\* the definitions appended for one input definition, or a panic
ActivateOne(def) ==
  LET head == IF def.Type = SoftMax \/ def.Type = SVM
                THEN IF def.LayerConfig.kind \in {"*softMaxLayerConfig", "*svmLayerConfig"}
                       THEN [panic |-> FALSE,
                             defs |-> <<BareDef(FullyConnected,
                                        NewFullyConnectedLayerConfig(def.LayerConfig.N))>>]
                       ELSE [panic |-> TRUE, defs |-> <<>>]
                ELSE IF def.Type = Regression
                  THEN IF def.LayerConfig.kind = "*regressionLayerConfig"
                         THEN [panic |-> FALSE,
                               defs |-> <<BareDef(FullyConnected,
                                          NewFullyConnectedLayerConfig(def.LayerConfig.N))>>]
                         ELSE [panic |-> TRUE, defs |-> <<>>]
                  ELSE [panic |-> FALSE, defs |-> <<>>]
      \* the configuration is shared by pointer: the appended definition sees the new bias
      biased == IF /\ def.Type \in {FullyConnected, Conv}
                   /\ def.Activation = ReLU
                   /\ def.LayerConfig.kind \in {"*fullyConnLayerConfig", "*convLayerConfig"}
                  THEN [def EXCEPT !.LayerConfig.PreferredBias = 1]
                  ELSE def
      act == IF def.Activation # NoActivation
               THEN IF def.Activation \in {ReLU, Sigmoid, Tanh}
                      THEN [panic |-> FALSE, defs |-> <<BareDef(def.Activation, NilConf)>>]
                      ELSE IF def.Activation = Maxout
                        THEN [panic |-> FALSE,
                              defs |-> <<BareDef(Maxout, MaxoutConfigValue(
                                          IF def.Maxout.kind # "nil" THEN def.Maxout.GroupSize
                                                                     ELSE 2))>>]
                        ELSE [panic |-> TRUE, defs |-> <<>>]
               ELSE [panic |-> FALSE, defs |-> <<>>]
      drop == IF def.Dropout.kind # "nil" THEN <<BareDef(Dropout, def.Dropout)>> ELSE <<>>
  IN [panic |-> head.panic \/ act.panic,
      defs |-> head.defs \o <<biased>> \o act.defs \o drop]

RECURSIVE ActivateFrom(_, _, _)
ActivateFrom(defs, i, newDefs) ==
  IF i > Len(defs) THEN [panic |-> FALSE, defs |-> newDefs]
  ELSE LET one == ActivateOne(defs[i])
       IN IF one.panic THEN [panic |-> TRUE, defs |-> <<>>]
          ELSE ActivateFrom(defs, i + 1, newDefs \o one.defs)

ActivateLayers(defs) == ActivateFrom(defs, 1, <<>>)

(***************************************************************************)
(* Layer instances and their constructors                                  *)
(***************************************************************************)
\* a nil *volume.Volume held in a layer field; otherwise the field is a heap address >= 1
NilVol == 0

NoVolume == [dim |-> NoDim, w |-> <<>>, dw |-> <<>>]

\* A layer instance.  Fields a layer type does not have stay at their zero value.
Layer(type, conf, input, output) ==
  [type |-> type, conf |-> conf, input |-> input, output |-> output,
   inVol |-> NilVol, outVol |-> NilVol, filters |-> <<>>, biases |-> NoVolume,
   dropped |-> <<>>, switches |-> <<>>, switchX |-> <<>>, switchY |-> <<>>, es |-> <<>>]

NoLayer == Layer("", NilConf, NoDim, NoDim)

\* what a constructor does: it returns a layer or panics
Built(l) == [ok |-> TRUE, layer |-> l]
Panics == [ok |-> FALSE, layer |-> NoLayer]

NewInputLayer(def) ==
  IF def.Type # Input THEN Panics
  ELSE IF def.Output.Z = 0 THEN Panics
  ELSE Built(Layer(Input, NilConf, NoDim, def.Output))

NewFullyConnectedLayer(def, rnd) ==
  IF def.Type # FullyConnected THEN Panics
  ELSE IF def.Output.Z = 0 THEN Panics
  ELSE IF def.LayerConfig.kind = "nil" THEN Panics
  ELSE IF def.LayerConfig.kind # "*fullyConnLayerConfig" THEN Panics
  ELSE LET conf == def.LayerConfig
           outDepth == conf.N
           outDim == NewDimensions(1, 1, outDepth)
           filters == [i \in 1..outDepth |->
                         NewVolume(NewDimensions(1, 1, DimSize(def.Input)), NoVolOpts,
                                   Rotate(rnd, i - 1))]
           biases == NewVolume(NewDimensions(1, 1, outDepth),
                               WithInitialValue(conf.PreferredBias), rnd)
       IN Built([Layer(FullyConnected, conf, def.Input, outDim)
                   EXCEPT !.filters = filters, !.biases = biases])

NewDropoutLayer(def) ==
  IF def.Type # Dropout THEN Panics
  ELSE IF def.LayerConfig.kind # "*DropoutLayerConfig" THEN Panics
  ELSE Built([Layer(Dropout, def.LayerConfig, def.Input, def.Output)
                EXCEPT !.dropped = [i \in 1..DimSize(def.Output) |-> FALSE]])

NewSoftmaxLayer(def) ==
  IF def.Type # SoftMax THEN Panics
  ELSE IF def.LayerConfig.kind = "nil" THEN Panics
  ELSE IF def.LayerConfig.kind # "*softMaxLayerConfig" THEN Panics
  ELSE Built(Layer(SoftMax, def.LayerConfig, def.Input,
                   NewDimensions(1, 1, DimSize(def.Input))))

NewRegressionLayer(def) ==
  IF def.Type # Regression THEN Panics
  ELSE IF def.LayerConfig.kind # "*regressionLayerConfig" THEN Panics
  ELSE Built(Layer(Regression, def.LayerConfig, def.Input,
                   NewDimensions(1, 1, DimSize(def.Input))))

NewSVMLayer(def) ==
  IF def.Type # SVM THEN Panics
  ELSE IF def.LayerConfig.kind # "*svmLayerConfig" THEN Panics
  ELSE Built(Layer(SVM, def.LayerConfig, def.Input,
                   NewDimensions(1, 1, DimSize(def.Input))))

\* floor((in + 2*padding - kernel)/stride + 1), stride > 0
OutSize(in, padding, kernel, stride) == ((in + padding * 2 - kernel) \div stride) + 1

NewConvLayer(def, rnd) ==
  IF def.Type # Conv THEN Panics
  ELSE IF def.Output.Z = 0 THEN Panics
  ELSE IF def.LayerConfig.kind = "nil" THEN Panics
  ELSE IF def.LayerConfig.kind # "*convLayerConfig" THEN Panics
  ELSE LET c == def.LayerConfig
           conf == IF c.Sy <= 0 THEN [c EXCEPT !.Sy = c.Sx] ELSE c
           outDepth == conf.N
           outDim == NewDimensions(OutSize(def.Input.X, conf.Padding, conf.Sx, conf.Stride),
                                   OutSize(def.Input.Y, conf.Padding, conf.Sy, conf.Stride),
                                   outDepth)
           filters == [i \in 1..outDepth |->
                         NewVolume(NewDimensions(conf.Sx, conf.Sy, def.Input.Z), NoVolOpts,
                                   Rotate(rnd, i - 1))]
           biases == NewVolume(NewDimensions(1, 1, outDepth),
                               WithInitialValue(conf.PreferredBias), rnd)
       IN Built([Layer(Conv, conf, def.Input, outDim)
                   EXCEPT !.filters = filters, !.biases = biases])

NewPoolLayer(def) ==
  IF def.Type # Pool THEN Panics
  ELSE IF def.Output.Z = 0 THEN Panics
  ELSE IF def.LayerConfig.kind = "nil" THEN Panics
  ELSE IF def.LayerConfig.kind # "*poolLayerConfig" THEN Panics
  ELSE LET c == def.LayerConfig
           conf == IF c.Sy <= 0 THEN [c EXCEPT !.Sy = c.Sx] ELSE c
           outDim == NewDimensions(OutSize(def.Input.X, conf.Padding, conf.Sx, conf.Stride),
                                   OutSize(def.Input.Y, conf.Padding, conf.Sy, conf.Stride),
                                   def.Input.Z)
       IN \* make([]int, n) panics for a negative n
          IF DimSize(outDim) < 0 THEN Panics
          ELSE Built([Layer(Pool, conf, def.Input, outDim)
                        EXCEPT !.switchX = [i \in 1..DimSize(outDim) |-> 0],
                               !.switchY = [i \in 1..DimSize(outDim) |-> 0]])

\* NewReluLayer, NewSigmoidLayer and NewTanhLayer are the same but for the type
NewActivationLayer(def, type) ==
  IF def.Type # type THEN Panics
  ELSE IF def.Output.Z = 0 THEN Panics
  ELSE Built(Layer(type, NilConf, NoDim, def.Output))

NewReluLayer(def) == NewActivationLayer(def, ReLU)
NewSigmoidLayer(def) == NewActivationLayer(def, Sigmoid)
NewTanhLayer(def) == NewActivationLayer(def, Tanh)

NewMaxoutLayer(def) ==
  IF def.Type # Maxout THEN Panics
  ELSE IF def.Output.Z = 0 THEN Panics
  ELSE IF def.LayerConfig.kind # "*MaxoutLayerConfig" THEN Panics
  ELSE IF def.LayerConfig.GroupSize <= 0 THEN Panics
  ELSE Built([Layer(Maxout, def.LayerConfig, NoDim, def.Output)
                EXCEPT !.switches = [i \in 1..DimSize(def.Output) |-> 0]])

(***************************************************************************)
(* NewNetwork                                                              *)
(***************************************************************************)
\* status "ok": the network; "error": a nil network and an error; "panic":
\* the call did not return
NetResult(status, layers) == [status |-> status, layers |-> layers]

\* the definition the loop of NewNetwork hands to the constructor of layer i
DefWithInput(defs, i) ==
  IF i > 1 THEN [defs[i] EXCEPT !.Input = defs[i - 1].Output] ELSE defs[i]

\* the switch of NewNetwork; "unrecognized" is its default branch
Instantiate(def, rnd) ==
  CASE def.Type = FullyConnected -> NewFullyConnectedLayer(def, rnd)
    [] def.Type = Dropout -> NewDropoutLayer(def)
    [] def.Type = Input -> NewInputLayer(def)
    [] def.Type = SoftMax -> NewSoftmaxLayer(def)
    [] def.Type = Regression -> NewRegressionLayer(def)
    [] def.Type = Conv -> NewConvLayer(def, rnd)
    [] def.Type = Pool -> NewPoolLayer(def)
    [] def.Type = ReLU -> NewReluLayer(def)
    [] def.Type = Sigmoid -> NewSigmoidLayer(def)
    [] def.Type = Tanh -> NewTanhLayer(def)
    [] def.Type = Maxout -> NewMaxoutLayer(def)
    [] def.Type = SVM -> NewSVMLayer(def)
    [] OTHER -> [ok |-> TRUE, layer |-> [NoLayer EXCEPT !.type = "unrecognized"]]

RECURSIVE InstantiateFrom(_, _, _, _)
InstantiateFrom(defs, i, newLayers, rnd) ==
  IF i > Len(defs) THEN NetResult("ok", newLayers)
  ELSE LET r == Instantiate(DefWithInput(defs, i), Rotate(rnd, i - 1))
       IN IF ~r.ok THEN NetResult("panic", <<>>)
          ELSE IF r.layer.type = "unrecognized" THEN NetResult("error", <<>>)
          ELSE InstantiateFrom(defs, i + 1, Append(newLayers, r.layer), rnd)

NewNetwork(defs, rnd) ==
  IF Len(defs) <= 2 THEN NetResult("error", <<>>)
  ELSE IF defs[1].Type # Input THEN NetResult("error", <<>>)
  ELSE LET a == ActivateLayers(defs)
       IN IF a.panic THEN NetResult("panic", <<>>)
          ELSE InstantiateFrom(a.defs, 1, <<>>, rnd)

(***************************************************************************)
(* The heap of activation tensors.  A *volume.Volume is an address: the    *)
(* index of the volume in the heap.  A layer keeps the addresses of its    *)
(* last input and output, so two layers given the same address share one   *)
(* tensor.                                                                 *)
(***************************************************************************)
\* allocate v: the new heap; v's address is the new length
Alloc(heap, v) == Append(heap, v)

\* what a layer's Forward does: it returns an address or panics
Forwarded(l, heap, out) == [ok |-> TRUE, layer |-> l, heap |-> heap, out |-> out]
ForwardPanics(l, heap) == [ok |-> FALSE, layer |-> l, heap |-> heap, out |-> NilVol]

\* a call that zeroes every gradient before it fails
AbortedZeroed(l, heap) ==
  [ok |-> FALSE, layer |-> l, heap |-> [i \in 1..Len(heap) |-> ZeroGrad(heap[i])], loss |-> 0]

\* what a layer's Backward or Loss does
Done(l, heap, loss) == [ok |-> TRUE, layer |-> l, heap |-> heap, loss |-> loss]
Aborted(l, heap) == [ok |-> FALSE, layer |-> l, heap |-> heap, loss |-> 0]

(***************************************************************************)
(* Input layer                                                             *)
(***************************************************************************)
InputForward(l, heap, vol) ==
  Forwarded([l EXCEPT !.inVol = vol, !.outVol = vol], heap, vol)

\* panic(fmt.Errorf("Unsupported operation"))
InputBackward(l, heap) == Aborted(l, heap)

(***************************************************************************)
(* Fully connected layer                                                   *)
(***************************************************************************)
\* the dot product of the first n entries of w and wi
RECURSIVE Dot(_, _, _)
Dot(w, wi, n) == IF n = 0 THEN 0 ELSE Dot(w, wi, n - 1) + FMul(w[n], wi[n])

\* a Forward that starts the gradients of the filters and biases anew
FullyConnForwardZeroing(l, heap, vol) ==
  LET w == heap[vol].w
      nIn == DimSize(l.input)
      nOut == DimSize(l.output)
      l1 == [l EXCEPT !.inVol = vol,
                      !.filters = [i \in 1..Len(l.filters) |-> ZeroGrad(l.filters[i])],
                      !.biases = ZeroGrad(l.biases)]
  IN IF nOut > 0 /\ (nIn > Len(w) \/ nOut > Len(l.filters)) THEN ForwardPanics(l1, heap)
     ELSE LET A == [dim |-> l.output,
                    w |-> [i \in 1..nOut |-> Dot(w, l.filters[i].w, nIn) + l.biases.w[i]],
                    dw |-> Zeros(nOut)]
              h == Alloc(heap, A)
          IN Forwarded([l1 EXCEPT !.outVol = Len(h)], h, Len(h))

FullyConnForward(l, heap, vol) ==
  LET w == heap[vol].w
      nIn == DimSize(l.input)
      nOut == DimSize(l.output)
      l1 == [l EXCEPT !.inVol = vol]
  IN \* w[d], wi[d] and the bias and filter of neuron i must exist
     IF nOut > 0 /\ (nIn > Len(w) \/ nOut > Len(l.filters)) THEN ForwardPanics(l1, heap)
     ELSE LET A == [dim |-> l.output,
                    w |-> [i \in 1..nOut |-> Dot(w, l.filters[i].w, nIn) + l.biases.w[i]],
                    dw |-> Zeros(nOut)]
              h == Alloc(heap, A)
          IN Forwarded([l1 EXCEPT !.outVol = Len(h)], h, Len(h))

\* the input gradient after the neurons 1..i were visited
RECURSIVE FullyConnInGrad(_, _, _, _)
FullyConnInGrad(l, chain, i, d) ==
  IF i = 0 THEN 0
  ELSE FullyConnInGrad(l, chain, i - 1, d) + FMul(l.filters[i].w[d], chain[i])

FullyConnBackward(l, heap) ==
  IF l.inVol = NilVol \/ l.outVol = NilVol THEN Aborted(l, heap)
  ELSE LET in == heap[l.inVol]
           chain == heap[l.outVol].dw
           numInputs == DimSize(l.input)
           nOut == l.output.Z
       IN IF nOut > 0 /\ numInputs > Len(in.w) THEN Aborted(l, heap)
          ELSE LET inDw == [d \in 1..Len(in.dw) |->
                              IF d <= numInputs THEN FullyConnInGrad(l, chain, nOut, d) ELSE 0]
                   filters == [i \in 1..Len(l.filters) |->
                                 IF i <= nOut
                                   THEN [l.filters[i] EXCEPT !.dw =
                                          [d \in 1..Len(l.filters[i].dw) |->
                                             l.filters[i].dw[d] + FMul(in.w[d], chain[i])]]
                                   ELSE l.filters[i]]
                   biases == [l.biases EXCEPT !.dw =
                                [i \in 1..Len(l.biases.dw) |-> l.biases.dw[i] + chain[i]]]
               IN Done([l EXCEPT !.filters = filters, !.biases = biases],
                       [heap EXCEPT ![l.inVol].dw = inDw], 0)

(***************************************************************************)
(* ReLU layer                                                              *)
(***************************************************************************)
ReluForward(l, heap, vol) ==
  LET v2 == [Clone(heap[vol]) EXCEPT !.w =
               [i \in 1..Len(heap[vol].w) |-> IF heap[vol].w[i] < 0 THEN 0 ELSE heap[vol].w[i]]]
      h == Alloc(heap, v2)
  IN Forwarded([l EXCEPT !.inVol = vol, !.outVol = Len(h)], h, Len(h))

ReluBackward(l, heap) ==
  IF l.inVol = NilVol \/ l.outVol = NilVol THEN Aborted(l, heap)
  ELSE LET out == heap[l.outVol]
           n == DimSize(heap[l.inVol].dim)
       IN Done(l, [heap EXCEPT ![l.inVol].dw =
                     [i \in 1..n |-> IF out.w[i] <= 0 THEN 0 ELSE out.dw[i]]], 0)

(***************************************************************************)
(* SVM and Regression heads                                                *)
(***************************************************************************)
\* Forward of svmLayer and of regressionLayer: the identity
HeadForward(l, heap, vol) ==
  Forwarded([l EXCEPT !.inVol = vol, !.outVol = vol], heap, vol)

\* the classes that violate the margin or reach it
SvmViolatorsOrTies(w, index, n) ==
  {i \in 0..(n - 1) : i # index /\ -w[index + 1] + w[i + 1] + Scale >= 0}

\* the classes 0..n-1 other than index that violate the margin
SvmViolators(w, index, n) ==
  {i \in 0..(n - 1) : i # index /\ -w[index + 1] + w[i + 1] + Scale > 0}

RECURSIVE SvmLossSum(_, _, _)
SvmLossSum(w, index, n) ==
  IF n = 0 THEN 0
  ELSE SvmLossSum(w, index, n - 1) +
       (IF (n - 1) \in SvmViolators(w, index, n) THEN -w[index + 1] + w[n] + Scale ELSE 0)

SvmLoss(l, heap, index) ==
  IF index < 0 \/ index >= DimSize(l.output) THEN Aborted(l, heap)
  ELSE IF l.inVol = NilVol THEN Aborted(l, heap)
  ELSE LET in == heap[l.inVol]
           n == DimSize(heap[l.outVol].dim)
       IN IF index >= Len(in.w) \/ n > Len(in.w) THEN Aborted(l, heap)
          ELSE LET viol == SvmViolators(in.w, index, n)
                   dw == [i \in 1..Len(in.dw) |->
                            IF i - 1 = index THEN -Scale * Cardinality(viol)
                            ELSE IF (i - 1) \in viol THEN Scale ELSE 0]
               IN Done(l, [heap EXCEPT ![l.inVol].dw = dw], SvmLossSum(in.w, index, n))

RECURSIVE HalfSquares(_, _, _)
\* sum over i < n of 0.5 * dY * dY
HalfSquares(w, y, n) ==
  IF n = 0 THEN 0
  ELSE HalfSquares(w, y, n - 1) + FMul(FMul(Scale \div 2, w[n] - y[n]), w[n] - y[n])

RegressionMultiDimensionalLoss(l, heap, y) ==
  IF Len(y) # DimSize(l.output) THEN Aborted(l, heap)
  ELSE IF l.inVol = NilVol THEN Aborted(l, heap)
  ELSE LET in == heap[l.inVol]
           n == DimSize(l.output)
       IN IF n > Len(in.w) THEN Aborted(l, heap)
          ELSE Done(l, [heap EXCEPT ![l.inVol].dw =
                          [i \in 1..Len(in.dw) |-> IF i <= n THEN in.w[i] - y[i] ELSE 0]],
                    HalfSquares(in.w, y, n))

\* regressionLayer.DimensionalLoss
RegressionDimensionalLoss(l, heap, index, value) ==
  IF index < 0 \/ index >= DimSize(l.output) THEN Aborted(l, heap)
  ELSE IF l.inVol = NilVol THEN Aborted(l, heap)
  ELSE LET in == heap[l.inVol]
       IN IF index >= Len(in.w) THEN Aborted(l, heap)
          ELSE Done(l, [heap EXCEPT ![l.inVol].dw =
                          [i \in 1..Len(in.dw) |-> IF i - 1 = index THEN in.w[i] - value ELSE 0]],
                    FMul(FMul(Scale \div 2, in.w[index + 1] - value), in.w[index + 1] - value))

(***************************************************************************)
(* SoftMax head                                                            *)
(***************************************************************************)
\* math.Exp(a) for a <= 0, to one decimal digit
FExp(a) ==
  CASE a >= 0 -> 10 [] a = -1 -> 9 [] a = -2 -> 8 [] a = -3 -> 7
    [] a \in {-4, -5} -> 6 [] a = -6 -> 5 [] a \in -9..-7 -> 4
    [] a \in -12..-10 -> 3 [] a \in -16..-13 -> 2 [] a \in -23..-17 -> 1
    [] OTHER -> 0

\* what stands for +Inf, the value of -math.Log(0)
Infinity == 1000000

\* -math.Log(p) for a probability p, to one decimal digit
FNegLog(p) ==
  CASE p >= 10 -> 0 [] p = 9 -> 1 [] p = 8 -> 2 [] p = 7 -> 3 [] p = 6 -> 5
    [] p = 5 -> 6 [] p = 4 -> 9 [] p = 3 -> 12 [] p = 2 -> 16 [] p = 1 -> 23
    [] OTHER -> Infinity

RECURSIVE SeqMax(_, _)
\* the largest of the first n entries of a non-empty sequence
SeqMax(as, n) ==
  IF n <= 1 THEN as[1]
  ELSE LET m == SeqMax(as, n - 1) IN IF as[n] > m THEN as[n] ELSE m

SoftmaxForward(l, heap, vol) ==
  LET as == heap[vol].w
      n == l.output.Z
      l1 == [l EXCEPT !.inVol = vol]
  IN \* as[0] and as[i], i < n, must exist
     IF Len(as) = 0 \/ n > Len(as) THEN ForwardPanics(l1, heap)
     ELSE LET aMax == SeqMax(as, n)
              e == [i \in 1..n |-> FExp(as[i] - aMax)]
              esum == SeqSum(e)
              es == [i \in 1..n |-> FDiv(e[i], esum)]
              volA == [dim |-> l.output, w |-> es, dw |-> Zeros(DimSize(l.output))]
              h == Alloc(heap, volA)
          IN Forwarded([l1 EXCEPT !.outVol = Len(h), !.es = es], h, Len(h))

SoftmaxLoss(l, heap, index) ==
  IF index < 0 \/ index >= DimSize(l.output) THEN Aborted(l, heap)
  ELSE IF l.inVol = NilVol THEN Aborted(l, heap)
  ELSE LET in == heap[l.inVol]
           n == l.output.Z
       IN IF n > Len(in.dw) \/ n > Len(l.es) THEN Aborted(l, heap)
          ELSE Done(l, [heap EXCEPT ![l.inVol].dw =
                          [i \in 1..Len(in.dw) |->
                             IF i <= n
                               THEN -((IF i - 1 = index THEN Scale ELSE 0) - l.es[i])
                               ELSE 0]],
                    FNegLog(l.es[index + 1]))

(***************************************************************************)
(* The Layer interface as the network uses it                              *)
(***************************************************************************)
(***************************************************************************)
(* Convolution layer                                                       *)
(***************************************************************************)
\* the coordinates of a 0-based linear index: the inverse of getIndex
Position(dim, index) ==
  [x |-> (index \div dim.Z) % dim.X, y |-> index \div (dim.Z * dim.X), d |-> index % dim.Z]

\* y := -l.conf.Padding, and y += stride at the top of every turn of the loop
ConvStart(l, a) == -l.conf.Padding + (a + 1) * l.conf.Stride

\* The index of the input at (ox, oy, fz) with rows of the length row:
\* Forward reads ((vsx*oy)+ox)*vDim.Z + fz, Backward uses
\* ix1 := ((vsy*oy)+ox)*vDim.Z + fz.
ConvIndex(row, vDim, ox, oy, fz) == ((row * oy) + ox) * vDim.Z + fz

\* the row length in the index of Forward: vsx
ForwardRow(vDim) == vDim.X

\* the row length in the index of Backward: vsy
BackwardRow(vDim) == vDim.Y

\* The input element the filter entry k meets at the output entry j: hit is
\* the test oy >= 0 && oy < vsy && ox >= 0 && ox < vsx, ix the index with
\* rows of the length row.
ConvAccess(l, vDim, j, k, row) ==
  LET p == Position(l.output, j)
      o == Position(l.filters[p.d + 1].dim, k)
      At(ox, oy) == [hit |-> oy >= 0 /\ oy < vDim.Y /\ ox >= 0 /\ ox < vDim.X,
                     ix |-> ConvIndex(row, vDim, ox, oy, o.d)]
  IN At(ConvStart(l, p.x) + o.x, ConvStart(l, p.y) + o.y)

\* an access of an output entry and a filter entry leaves the slice of the input
ConvMisses(l, v, row) ==
  \E j \in 0..(DimSize(l.output) - 1) :
    \E k \in 0..(Len(l.filters[Position(l.output, j).d + 1].w) - 1) :
      LET Missed(a) == a.hit /\ a.ix >= Len(v.w)
      IN Missed(ConvAccess(l, v.dim, j, k, row))

ConvForward(l, heap, vol) ==
  LET v == heap[vol]
      l1 == [l EXCEPT !.inVol = vol]
      Term(f, a, k) == IF a.hit THEN FMul(f.w[k + 1], v.w[a.ix + 1]) ELSE 0
      Value(j, f) ==
        SeqSum([k \in 1..Len(f.w) |-> Term(f, ConvAccess(l, v.dim, j, k - 1, ForwardRow(v.dim)), k - 1)])
        + l.biases.w[Position(l.output, j).d + 1]
  IN IF ConvMisses(l, v, ForwardRow(v.dim)) THEN ForwardPanics(l1, heap)
     ELSE LET A == [dim |-> l.output,
                    w |-> [j \in 1..DimSize(l.output) |->
                             Value(j - 1, l.filters[Position(l.output, j - 1).d + 1])],
                    dw |-> Zeros(DimSize(l.output))]
              h == Alloc(heap, A)
          IN Forwarded([l1 EXCEPT !.outVol = Len(h)], h, Len(h))

\* The gradients the loops of Backward accumulate when the input is indexed
\* with rows of the length row: of the input (from zero), and added to those of the filters and
\* of the biases.
ConvGradients(l, in, out, row) ==
  LET nOut == DimSize(l.output)
      nF == DimSize(l.filters[1].dim)
      D(j) == Position(l.output, j).d + 1
      \* l.inVol.AddGradByIndex(ix1, f.GetByIndex(ix2)*chainGrad)
      InTerm(a, i, j, k) == IF a.hit /\ a.ix = i THEN FMul(l.filters[D(j)].w[k + 1], out.dw[j + 1]) ELSE 0
      \* f.AddGradByIndex(ix2, l.inVol.GetByIndex(ix1)*chainGrad)
      FilterTerm(a, d, j) == IF a.hit /\ D(j) = d THEN FMul(in.w[a.ix + 1], out.dw[j + 1]) ELSE 0
  IN [inDw |-> [i \in 1..Len(in.dw) |->
                  SeqSum([j \in 1..nOut |->
                            SeqSum([k \in 1..nF |->
                                      InTerm(ConvAccess(l, in.dim, j - 1, k - 1, row),
                                             i - 1, j - 1, k - 1)])])],
      filters |-> [d \in 1..Len(l.filters) |->
                     [l.filters[d] EXCEPT !.dw =
                        [k \in 1..Len(l.filters[d].dw) |->
                           l.filters[d].dw[k]
                           + SeqSum([j \in 1..nOut |->
                                       FilterTerm(ConvAccess(l, in.dim, j - 1, k - 1, row), d, j - 1)])]]],
      \* l.biases.AddGradByIndex(d, chainGrad)
      biases |-> [l.biases EXCEPT !.dw =
                    [d \in 1..Len(l.biases.dw) |->
                       l.biases.dw[d]
                       + SeqSum([j \in 1..nOut |-> IF D(j - 1) = d THEN out.dw[j] ELSE 0])]]]

\* a panic leaves the client no tensor to look at: the writes made before it
\* are not kept
ConvBackward(l, heap) ==
  IF l.inVol = NilVol \/ l.outVol = NilVol THEN Aborted(l, heap)
  ELSE IF ConvMisses(l, heap[l.inVol], BackwardRow(heap[l.inVol].dim)) THEN Aborted(l, heap)
  ELSE LET Accumulated(g) ==
             Done([l EXCEPT !.filters = g.filters, !.biases = g.biases],
                  [heap EXCEPT ![l.inVol].dw = g.inDw], 0)
       IN Accumulated(ConvGradients(l, heap[l.inVol], heap[l.outVol], BackwardRow(heap[l.inVol].dim)))

(***************************************************************************)
(* Pool layer                                                              *)
(***************************************************************************)
\* a := -1e5, the value every window starts from
PoolFloor == -100000 * Scale

\* The loops over fx and fy of poolLayer.Forward for the window that starts at
\* (x, y) in channel d: the k-th offset is fx = k \div Sy, fy = k % Sy; a
\* position inside the input wins when its value is greater than the best so far.
PoolScan(l, v, x, y, d) ==
  LET n == l.conf.Sx * l.conf.Sy
      Better(s, ox, oy) ==
        IF oy >= 0 /\ oy < l.input.Y /\ ox >= 0 /\ ox < l.input.X
          THEN IF v.w[getIndex(v.dim, ox, oy, d) + 1] > s.a
                 THEN [a |-> v.w[getIndex(v.dim, ox, oy, d) + 1], winX |-> ox, winY |-> oy]
                 ELSE s
          ELSE s
      Scan[k \in 0..n] ==
        IF k = 0 THEN [a |-> PoolFloor, winX |-> -1, winY |-> -1]
        ELSE Better(Scan[k - 1], x + ((k - 1) \div l.conf.Sy), y + ((k - 1) % l.conf.Sy))
  IN Scan[n]

\* the output position the loops over d, ax and ay visit at the count n
PoolOrder(dim, n) ==
  [d |-> n \div (dim.X * dim.Y), x |-> (n % (dim.X * dim.Y)) \div dim.Y, y |-> n % dim.Y]

\* poolLayer.Forward: x and y grow by the stride at the top of each turn, as
\* in the convolution (ConvStart)
PoolForward(l, heap, vol) ==
  LET v == heap[vol]
      nOut == DimSize(l.output)
      l1 == [l EXCEPT !.inVol = vol]
      Inside(p, k) ==
        /\ ConvStart(l, p.x) + (k \div l.conf.Sy) \in 0..(l.input.X - 1)
        /\ ConvStart(l, p.y) + (k % l.conf.Sy) \in 0..(l.input.Y - 1)
      Read(p, k) ==
        getIndex(v.dim, ConvStart(l, p.x) + (k \div l.conf.Sy), ConvStart(l, p.y) + (k % l.conf.Sy), p.d)
      \* l.inVol.Get outside the arrays of the tensor
      Misses ==
        \E n \in 0..(nOut - 1), k \in 0..(l.conf.Sx * l.conf.Sy - 1) :
          /\ Inside(PoolOrder(l.output, n), k)
          /\ Read(PoolOrder(l.output, n), k) \notin 0..(Len(v.w) - 1)
      Win(p) == PoolScan(l, v, ConvStart(l, p.x), ConvStart(l, p.y), p.d)
      Filled(wins) ==
        LET A == [dim |-> l.output,
                  w |-> [j \in 1..nOut |->
                           wins[Position(l.output, j - 1).d * l.output.X * l.output.Y
                                + Position(l.output, j - 1).x * l.output.Y
                                + Position(l.output, j - 1).y + 1].a],
                  dw |-> Zeros(nOut)]
            h == Alloc(heap, A)
        IN Forwarded([l1 EXCEPT !.outVol = Len(h),
                                !.switchX = [n \in 1..nOut |-> wins[n].winX],
                                !.switchY = [n \in 1..nOut |-> wins[n].winY]], h, Len(h))
  IN IF Misses THEN ForwardPanics(l1, heap)
     ELSE Filled([n \in 1..nOut |-> Win(PoolOrder(l.output, n - 1))])

\* poolLayer.Backward: the gradient of output n is added at (switchX[n],
\* switchY[n], d); AddGrad panics on an index outside the arrays
PoolBackward(l, heap) ==
  IF l.inVol = NilVol \/ l.outVol = NilVol THEN Aborted(l, heap)
  ELSE LET in == heap[l.inVol]
           out == heap[l.outVol]
           nOut == DimSize(l.output)
           Ix(n) == getIndex(in.dim, l.switchX[n + 1], l.switchY[n + 1], PoolOrder(l.output, n).d)
           Grad(p) == out.dw[getIndex(out.dim, p.x, p.y, p.d) + 1]
       IN IF \E n \in 0..(nOut - 1) : Ix(n) < 0 \/ Ix(n) >= Len(in.dw) THEN Aborted(l, heap)
          ELSE Done(l, [heap EXCEPT ![l.inVol].dw =
                          [i \in 1..Len(in.dw) |->
                             SeqSum([n \in 1..nOut |->
                                       IF Ix(n - 1) = i - 1 THEN Grad(PoolOrder(l.output, n - 1)) ELSE 0])]],
                    0)

(***************************************************************************)
(* Maxout layer                                                            *)
(***************************************************************************)
\* the loop over j of maxoutLayer.Forward on the group that starts at the
\* linear index base: the greatest value and the offset of the first one
MaxoutScan(w, base, k) ==
  LET Scan[j \in 0..(k - 1)] ==
        IF j = 0 THEN [a |-> w[base + 1], ai |-> 0]
        ELSE IF w[base + j + 1] > Scan[j - 1].a THEN [a |-> w[base + j + 1], ai |-> j]
        ELSE Scan[j - 1]
  IN Scan[k - 1]

\* maxoutLayer.Forward: l.outVol.CloneAndZero() dereferences the output of
\* the previous Forward, which is nil until a Forward has returned.  In the
\* branch for outputs wider than 1x1 every winner is written to the entry
\* output.Z of the switches.
MaxoutForward(l, heap, vol) ==
  LET l1 == [l EXCEPT !.inVol = vol]
      in == heap[vol]
      n == l.output.Z
      k == l.conf.GroupSize
      nOut == DimSize(l.output)
      Base(j) == getIndex(in.dim, Position(l.output, j).x, Position(l.output, j).y,
                          Position(l.output, j).d * k)
      Win(j) == MaxoutScan(in.w, Base(j), k)
      Last == getIndex(l.output, l.output.X - 1, l.output.Y - 1, n - 1)
      Written(v2) ==
        LET h == Alloc(heap, v2)
        IN Forwarded([l1 EXCEPT !.outVol = Len(h),
                                !.switches =
                                  IF l.output.X = 1 /\ l.output.Y = 1
                                    THEN [i \in 1..nOut |-> (i - 1) * k + Win(i - 1).ai]
                                    ELSE IF nOut = 0 THEN l.switches
                                    ELSE [l.switches EXCEPT ![n + 1] = (n - 1) * k + Win(Last).ai]],
                     h, Len(h))
  IN IF l.outVol = NilVol THEN ForwardPanics(l1, heap)
     ELSE IF DimSize(heap[l.outVol].dim) < 0 THEN ForwardPanics(l1, heap)
     ELSE IF \E j \in 0..(nOut - 1) : Base(j) < 0 \/ Base(j) + k > Len(in.w) THEN ForwardPanics(l1, heap)
     ELSE IF nOut > DimSize(heap[l.outVol].dim) THEN ForwardPanics(l1, heap)
     ELSE Written([CloneAndZero(heap[l.outVol]) EXCEPT !.w =
                     [i \in 1..DimSize(heap[l.outVol].dim) |->
                        IF i <= nOut THEN Win(i - 1).a ELSE 0]])

\* maxoutLayer.Backward
MaxoutBackward(l, heap) ==
  IF l.inVol = NilVol \/ l.outVol = NilVol THEN Aborted(l, heap)
  ELSE LET in == heap[l.inVol]
           out == heap[l.outVol]
           nOut == DimSize(l.output)
           \* the count si of the turn that visits the output at the linear index j
           Ix(j) ==
             IF l.output.X = 1 /\ l.output.Y = 1 THEN l.switches[j + 1]
             ELSE getIndex(in.dim, Position(l.output, j).x, Position(l.output, j).y,
                           l.switches[(Position(l.output, j).x * l.output.Y + Position(l.output, j).y)
                                        * l.output.Z + Position(l.output, j).d + 1])
       IN IF \E j \in 0..(nOut - 1) : Ix(j) < 0 \/ Ix(j) >= Len(in.dw) \/ j >= Len(out.dw)
            THEN Aborted(l, heap)
          ELSE Done(l, [heap EXCEPT ![l.inVol].dw =
                          [i \in 1..Len(in.dw) |->
                             IF \E j \in 0..(nOut - 1) : Ix(j) = i - 1
                               THEN out.dw[(CHOOSE j \in 0..(nOut - 1) :
                                              /\ Ix(j) = i - 1
                                              /\ \A j2 \in 0..(nOut - 1) :
                                                   Ix(j2) = i - 1 =>
                                                     (Position(l.output, j2).x * l.output.Y
                                                        + Position(l.output, j2).y) * l.output.Z
                                                       + Position(l.output, j2).d
                                                     <= (Position(l.output, j).x * l.output.Y
                                                           + Position(l.output, j).y) * l.output.Z
                                                          + Position(l.output, j).d) + 1]
                               ELSE 0]],
                    0)

(***************************************************************************)
(* Dropout layer                                                           *)
(***************************************************************************)
\* a Forward that applies in inference mode the mask of the last training call
DropoutForwardMasked(l, heap, vol, training, drops) ==
  LET in == heap[vol]
      n == DimSize(in.dim)
      l1 == [l EXCEPT !.inVol = vol]
      Returned(vol2, dropped) ==
        LET h == Alloc(heap, vol2)
        IN Forwarded([l1 EXCEPT !.outVol = Len(h), !.dropped = dropped], h, Len(h))
  IN IF n > Len(l.dropped) THEN ForwardPanics(l1, heap)
     ELSE IF training
       THEN Returned([Clone(in) EXCEPT !.w = [i \in 1..n |-> IF drops[i] THEN 0 ELSE in.w[i]]],
                     [i \in 1..Len(l.dropped) |-> IF i <= n THEN drops[i] ELSE l.dropped[i]])
       ELSE Returned([Clone(in) EXCEPT !.w =
                        [i \in 1..n |-> IF l.dropped[i] THEN 0
                                        ELSE FMul(in.w[i], l.conf.DropoutProbability)]],
                     l.dropped)

\* dropoutLayer.Forward; drops[i] is the outcome of the i-th
\* rand.Float64() < DropoutProbability of a call in training mode
DropoutForward(l, heap, vol, training, drops) ==
  LET in == heap[vol]
      n == DimSize(in.dim)
      l1 == [l EXCEPT !.inVol = vol]
      Returned(vol2, dropped) ==
        LET h == Alloc(heap, vol2)
        IN Forwarded([l1 EXCEPT !.outVol = Len(h), !.dropped = dropped], h, Len(h))
  IN IF training
       THEN IF n > Len(l.dropped) THEN ForwardPanics(l1, heap)
            ELSE Returned([Clone(in) EXCEPT !.w = [i \in 1..n |-> IF drops[i] THEN 0 ELSE in.w[i]]],
                          [i \in 1..Len(l.dropped) |-> IF i <= n THEN drops[i] ELSE l.dropped[i]])
       ELSE Returned([Clone(in) EXCEPT !.w = [i \in 1..n |-> FMul(in.w[i], l.conf.DropoutProbability)]],
                     l.dropped)

\* dropoutLayer.Backward
DropoutBackward(l, heap) ==
  IF l.inVol = NilVol \/ l.outVol = NilVol THEN Aborted(l, heap)
  ELSE LET in == heap[l.inVol]
           out == heap[l.outVol]
           n == DimSize(in.dim)
       IN IF n > Len(l.dropped) \/ n > Len(out.dw) THEN Aborted(l, heap)
          ELSE Done(l, [heap EXCEPT ![l.inVol].dw =
                          [i \in 1..n |-> IF l.dropped[i] THEN 0 ELSE out.dw[i]]], 0)

\* Layer.Forward, dispatched on the dynamic type (none of these layers reads
\* training; the dropout layer, which does, is DropoutForward)
LayerForward(l, heap, vol, training) ==
  CASE l.type = Input -> InputForward(l, heap, vol)
    [] l.type = FullyConnected -> FullyConnForward(l, heap, vol)
    [] l.type = ReLU -> ReluForward(l, heap, vol)
    [] l.type = SoftMax -> SoftmaxForward(l, heap, vol)
    [] l.type \in {SVM, Regression} -> HeadForward(l, heap, vol)
    [] l.type = Conv -> ConvForward(l, heap, vol)
    [] l.type = Pool -> PoolForward(l, heap, vol)
    [] l.type = Maxout -> MaxoutForward(l, heap, vol)

\* Layer.Backward, dispatched on the dynamic type; the heads and the input layer panic
LayerBackward(l, heap) ==
  CASE l.type = Input -> InputBackward(l, heap)
    [] l.type = FullyConnected -> FullyConnBackward(l, heap)
    [] l.type = ReLU -> ReluBackward(l, heap)
    [] l.type \in {SoftMax, SVM, Regression} -> Aborted(l, heap)
    [] l.type = Conv -> ConvBackward(l, heap)
    [] l.type = Pool -> PoolBackward(l, heap)
    [] l.type = Maxout -> MaxoutBackward(l, heap)
    [] l.type = Dropout -> DropoutBackward(l, heap)

\* the type assertion .(layers.LossLayer): the types that have a Loss method
IsLossLayer(l) == l.type \in {SoftMax, SVM}

\* the type assertion .(layers.RegressionLossLayer)
IsRegressionLossLayer(l) == l.type = Regression

\* LossLayer.Loss
LayerLoss(l, heap, index) ==
  IF l.type = SoftMax THEN SoftmaxLoss(l, heap, index) ELSE SvmLoss(l, heap, index)

\* One parameter response: Weights and Gradients are slices of the tensor
\* filter of layer (filter = 0: its biases), so writes reach the layer.
Response(layer, filter, l1, l2) ==
  [layer |-> layer, filter |-> filter, L1DecayMul |-> l1, L2DecayMul |-> l2]

\* responses whose biases carry the decay multipliers of the layer
LayerResponseDecayingBias(l, li) ==
  IF l.type \in {FullyConnected, Conv}
    THEN [i \in 1..l.output.Z |-> Response(li, i, l.conf.L1DecayMult, l.conf.L2DecayMult)]
         \o <<Response(li, 0, l.conf.L1DecayMult, l.conf.L2DecayMult)>>
    ELSE <<>>

\* Layer.GetResponse of layer number li
LayerResponse(l, li) ==
  IF l.type \in {FullyConnected, Conv}
    THEN [i \in 1..l.output.Z |-> Response(li, i, l.conf.L1DecayMult, l.conf.L2DecayMult)]
         \o <<Response(li, 0, 0, 0)>>
    ELSE <<>>

\* the tensor a response is a view of
ResponseVolume(layers, pg) ==
  IF pg.filter = 0 THEN layers[pg.layer].biases ELSE layers[pg.layer].filters[pg.filter]

\* the layers after the tensor of a response was replaced by v
WithResponseVolume(layers, pg, v) ==
  IF pg.filter = 0 THEN [layers EXCEPT ![pg.layer].biases = v]
  ELSE [layers EXCEPT ![pg.layer].filters[pg.filter] = v]

(***************************************************************************)
(* network                                                                 *)
(***************************************************************************)
\* the outcome of a network call: the layers and heap it leaves, the value it
\* returns, and the tensors each layer's Forward received and returned
NetCall(ok, layers, heap, ret, received, returned, backward) ==
  [ok |-> ok, layers |-> layers, heap |-> heap, ret |-> ret,
   received |-> received, returned |-> returned, backward |-> backward]

RECURSIVE ForwardFrom(_, _, _, _, _, _, _, _)
\* the layers from index on are given vol; actions is what the last one returned
ForwardFrom(layers, heap, vol, training, index, actions, received, returned) ==
  IF index > Len(layers)
    THEN NetCall(TRUE, layers, heap, actions, received, returned, <<>>)
    ELSE \* n.layers[index].Forward(vol, training) came to r
         LET Called(r) ==
               IF ~r.ok
                 THEN NetCall(FALSE, [layers EXCEPT ![index] = r.layer], r.heap, NilVol,
                              Append(received, vol), returned, <<>>)
                 ELSE ForwardFrom([layers EXCEPT ![index] = r.layer], r.heap, vol, training,
                                  index + 1, r.out, Append(received, vol),
                                  Append(returned, r.out))
         IN Called(LayerForward(layers[index], heap, vol, training))

\* network.Forward(vol, training) on a heap that holds the caller's tensor at vol
Forward(layers, heap, vol, training) ==
  ForwardFrom(layers, heap, vol, training, 1, NilVol, <<>>, <<>>)

RECURSIVE BackwardFrom(_, _, _, _, _)
\* the loop of network.Backward; visited lists the layers whose Backward ran
BackwardFrom(layers, heap, index, loss, visited) ==
  IF index < 1
    THEN NetCall(TRUE, layers, heap, loss, <<>>, <<>>, visited)
    ELSE \* n.layers[index].Backward() came to r
         LET Called(r) ==
               IF ~r.ok
                 THEN NetCall(FALSE, [layers EXCEPT ![index] = r.layer], r.heap, 0,
                              <<>>, <<>>, Append(visited, index))
                 ELSE BackwardFrom([layers EXCEPT ![index] = r.layer], r.heap, index - 1,
                                   loss, Append(visited, index))
         IN Called(LayerBackward(layers[index], heap))

\* network.Backward(index)
Backward(layers, heap, index) ==
  IF ~IsLossLayer(layers[Len(layers)]) THEN NetCall(FALSE, layers, heap, 0, <<>>, <<>>, <<>>)
  ELSE \* lossLayer.Loss(index) came to r
       LET Called(r) ==
             IF ~r.ok
               THEN NetCall(FALSE, [layers EXCEPT ![Len(layers)] = r.layer], r.heap, 0,
                            <<>>, <<>>, <<>>)
               ELSE BackwardFrom([layers EXCEPT ![Len(layers)] = r.layer], r.heap,
                                 Len(layers) - 1, r.loss, <<>>)
       IN Called(LayerLoss(layers[Len(layers)], heap, index))

\* network.MultiDimensionalLoss(y)
MultiDimensionalLoss(layers, heap, y) ==
  IF ~IsRegressionLossLayer(layers[Len(layers)])
    THEN NetCall(FALSE, layers, heap, 0, <<>>, <<>>, <<>>)
    ELSE \* the regression layer's loss came to r
         (LET Returned(r) == NetCall(r.ok, [layers EXCEPT ![Len(layers)] = r.layer],
                                     r.heap, r.loss, <<>>, <<>>, <<>>)
          IN Returned(RegressionMultiDimensionalLoss(layers[Len(layers)], heap, y)))

RECURSIVE ResponsesFrom(_, _)
ResponsesFrom(layers, index) ==
  IF index > Len(layers) THEN <<>>
  ELSE LayerResponse(layers[index], index) \o ResponsesFrom(layers, index + 1)

\* network.GetResponse()
GetResponse(layers) == ResponsesFrom(layers, 1)

\* a comparison that also takes a tie
ExceedsOrTies(a, b) == a >= b

\* p[index] > maxv
Exceeds(a, b) == a > b

RECURSIVE ArgMaxFrom(_, _, _, _)
\* the loop of GetSoftMaxPrediction from the 0-based index on
ArgMaxFrom(p, index, maxv, maxi) ==
  IF index >= Len(p) THEN maxi
  ELSE IF Exceeds(p[index + 1], maxv) THEN ArgMaxFrom(p, index + 1, p[index + 1], index)
  ELSE ArgMaxFrom(p, index + 1, maxv, maxi)

\* layers.GetSoftMaxPrediction(layer): a panic or the prediction
GetSoftMaxPrediction(l, heap) ==
  IF l.type # SoftMax THEN [ok |-> FALSE, ret |-> 0]
  \* softmax.outVol is nil before the first Forward; p[0] must exist
  ELSE IF l.outVol = NilVol THEN [ok |-> FALSE, ret |-> 0]
  ELSE IF Len(heap[l.outVol].w) = 0 THEN [ok |-> FALSE, ret |-> 0]
  ELSE [ok |-> TRUE, ret |-> ArgMaxFrom(heap[l.outVol].w, 0, heap[l.outVol].w[1], 0)]

\* network.GetPrediction()
GetPrediction(layers, heap) ==
  IF layers[Len(layers)].type # SoftMax THEN [ok |-> FALSE, ret |-> 0]
  ELSE GetSoftMaxPrediction(layers[Len(layers)], heap)

\* a GetCostLoss that zeroes the gradients of the parameters before the loss
GetCostLossZeroing(layers, heap, vol, index) ==
  LET Cleared(ls) ==
        [i \in 1..Len(ls) |->
           [ls[i] EXCEPT !.filters = [f \in 1..Len(ls[i].filters) |-> ZeroGrad(ls[i].filters[f])],
                         !.biases = ZeroGrad(ls[i].biases)]]
      Lost(ls, r) ==
        NetCall(r.ok, [ls EXCEPT ![Len(ls)] = r.layer], r.heap, r.loss, <<>>, <<>>, <<>>)
      Called(fwd) ==
        IF ~fwd.ok THEN NetCall(FALSE, fwd.layers, fwd.heap, 0, <<>>, <<>>, <<>>)
        ELSE IF ~IsLossLayer(fwd.layers[Len(fwd.layers)])
          THEN NetCall(FALSE, fwd.layers, fwd.heap, 0, <<>>, <<>>, <<>>)
        ELSE Lost(Cleared(fwd.layers), LayerLoss(fwd.layers[Len(fwd.layers)], fwd.heap, index))
  IN Called(Forward(layers, heap, vol, FALSE))

\* network.GetCostLoss(vol, index)
GetCostLoss(layers, heap, vol, index) ==
  LET Lost(ls, r) ==
        NetCall(r.ok, [ls EXCEPT ![Len(ls)] = r.layer], r.heap, r.loss, <<>>, <<>>, <<>>)
      \* n.Forward(vol, false) came to fwd
      Called(fwd) ==
        IF ~fwd.ok THEN NetCall(FALSE, fwd.layers, fwd.heap, 0, <<>>, <<>>, <<>>)
        ELSE IF ~IsLossLayer(fwd.layers[Len(fwd.layers)])
          THEN NetCall(FALSE, fwd.layers, fwd.heap, 0, <<>>, <<>>, <<>>)
        ELSE Lost(fwd.layers, LayerLoss(fwd.layers[Len(fwd.layers)], fwd.heap, index))
  IN Called(Forward(layers, heap, vol, FALSE))

(***************************************************************************)
(* Trainer                                                                 *)
(***************************************************************************)
SGD == "sgd"
Adam == "adam"
Adagrad == "adagrad"
Adadelta == "adadelta"
Windowgrad == "windowgrad"
Netsterov == "netsterov"

Methods == {SGD, Adam, Adagrad, Adadelta, Windowgrad, Netsterov}

\* Options after the option functions ran
Options(method, lr, l1, l2, batch, momentum, ro, eps, beta1, beta2) ==
  [Method |-> method, LearningRate |-> lr, L1Decay |-> l1, L2Decay |-> l2,
   BatchSize |-> batch, Momentum |-> momentum, Ro |-> ro, Eps |-> eps,
   Beta1 |-> beta1, Beta2 |-> beta2]

\* &trainer{net, baseOpts, 0, [][]float64{}, [][]float64{}, isRegression}
NewTrainer(layers, opts) ==
  [opts |-> opts, k |-> 0, gsum |-> <<>>, xsum |-> <<>>,
   regression |-> IsRegressionLossLayer(layers[Len(layers)])]

\* a trainer that runs the update pass on every call
UpdateDueAlways(k, batchSize) == TRUE

\* t.k%t.opts.BatchSize == 0
UpdateDue(k, batchSize) == k % batchSize = 0

\* the condition under which the accumulators are appended:
\* len(t.gsum) == 0 && t.opts.Method == SGD || t.opts.Momentum > 0.0
AllocatesAccumulators(t) ==
  (Len(t.gsum) = 0 /\ t.opts.Method = SGD) \/ t.opts.Momentum > 0

\* the loop that appends one gsum and one xsum entry per response
WithAccumulators(t, sizes) ==
  [t EXCEPT !.gsum = t.gsum \o [i \in 1..Len(sizes) |-> Zeros(sizes[i])],
            !.xsum = t.xsum \o [i \in 1..Len(sizes) |->
                                  IF t.opts.Method = Adam \/ t.opts.Method = Adadelta
                                    THEN Zeros(sizes[i]) ELSE <<>>]]

\* gij, the raw batch gradient of a parameter p with gradient g
BatchGradient(opts, l1Decay, l2Decay, p, g) ==
  LET l2Grad == FMul(l2Decay, p)
      l1Grad == IF p <= 0 THEN -l1Decay ELSE l1Decay
  IN FDiv(l2Grad + l1Grad + g, ToFloat(opts.BatchSize))

\* a step up the gradient
SgdStepAscent(opts, gij) == FMul(opts.LearningRate, gij)

\* vanilla sgd: the amount added to p
SgdStep(opts, gij) == FMul(-opts.LearningRate, gij)

\* the update rule of one parameter: dx and the new accumulator entries
\* (v = gsumi[j], x = xsumi[j]; x is 0 and ignored where xsumi is empty)
Step(opts, k, gij, v, x) ==
  CASE opts.Method = Adam ->
         LET v1 == FMul(v, opts.Beta1) + FMul(Scale - opts.Beta1, gij)
             x1 == FMul(x, opts.Beta2) + FMul(FMul(Scale - opts.Beta2, gij), gij)
             biasCorr1 == FMul(v1, Scale - FPow(opts.Beta1, k))
             biasCorr2 == FMul(x1, Scale - FPow(opts.Beta2, k))
         IN [dx |-> FDiv(FMul(-opts.LearningRate, biasCorr1), FSqrt(biasCorr2) + opts.Eps),
             v |-> v1, x |-> x1]
    [] opts.Method = Adagrad ->
         LET v1 == v + FMul(gij, gij)
         IN [dx |-> FMul(FDiv(-opts.LearningRate, FSqrt(v1) + opts.Eps), gij),
             v |-> v1, x |-> x]
    [] opts.Method = Windowgrad ->
         LET v1 == FMul(opts.Ro, v) + FMul(FMul(Scale - opts.Ro, gij), gij)
         IN [dx |-> FMul(FDiv(-opts.LearningRate, FSqrt(v1 + opts.Eps)), gij),
             v |-> v1, x |-> x]
    [] opts.Method = Adadelta ->
         LET v1 == FMul(opts.Ro, v) + FMul(FMul(Scale - opts.Ro, gij), gij)
             dx == FMul(-FSqrt(FDiv(x + opts.Eps, v1 + opts.Eps)), gij)
         IN [dx |-> dx, v |-> v1,
             x |-> FMul(opts.Ro, x) + FMul(FMul(Scale - opts.Ro, dx), dx)]
    [] opts.Method = Netsterov ->
         LET v1 == FMul(v, opts.Momentum) + FMul(opts.LearningRate, gij)
         IN [dx |-> FMul(opts.Momentum, v) - FMul(Scale + opts.Momentum, v1),
             v |-> v1, x |-> x]
    [] OTHER ->
         IF opts.Momentum > 0
           THEN LET dx == FMul(opts.Momentum, v) - FMul(opts.LearningRate, gij)
                IN [dx |-> dx, v |-> dx, x |-> x]
           ELSE [dx |-> SgdStep(opts, gij), v |-> v, x |-> x]

\* an update pass that leaves the gradient where it is
KeptGradient(g) == g

\* g[j] = 0.0: what the update pass leaves in a gradient entry it consumed
ConsumedGradient(g) == 0

\* the decay losses of one response: sums over its parameters
RECURSIVE L2Loss(_, _, _)
L2Loss(l2Decay, p, n) ==
  IF n = 0 THEN 0
  ELSE L2Loss(l2Decay, p, n - 1) + FDiv(FMul(FMul(l2Decay, p[n]), p[n]), 2 * Scale)

RECURSIVE L1Loss(_, _, _)
L1Loss(l1Decay, p, n) ==
  IF n = 0 THEN 0 ELSE L1Loss(l1Decay, p, n - 1) + FMul(l1Decay, Abs(p[n]))

\* The body of "for i, pg := range pgList" for one response whose tensor is vol
\* and whose accumulators gsumi and xsumi exist.
UpdateResponse(opts, k, pg, vol, gsumi, xsumi) ==
  LET \* the steps st of the parameters were taken
      Taken(l1Decay, l2Decay, st) ==
        [vol |-> [vol EXCEPT !.w = [j \in 1..Len(vol.w) |-> vol.w[j] + st[j].dx],
                             !.dw = [j \in 1..Len(vol.w) |-> ConsumedGradient(vol.dw[j])]],
         gsumi |-> [j \in 1..Len(vol.w) |-> st[j].v],
         xsumi |-> [j \in 1..Len(xsumi) |-> st[j].x],
         l1DecayLoss |-> L1Loss(l1Decay, vol.w, Len(vol.w)),
         l2DecayLoss |-> L2Loss(l2Decay, vol.w, Len(vol.w))]
      WithDecay(l1Decay, l2Decay) ==
        Taken(l1Decay, l2Decay,
              [j \in 1..Len(vol.w) |->
                 Step(opts, k, BatchGradient(opts, l1Decay, l2Decay, vol.w[j], vol.dw[j]),
                      gsumi[j], IF j <= Len(xsumi) THEN xsumi[j] ELSE 0)])
  IN WithDecay(FMul(opts.L1Decay, pg.L1DecayMul), FMul(opts.L2Decay, pg.L2DecayMul))

\* the state of an update pass
Pass(ok, layers, t, l1, l2) ==
  [ok |-> ok, layers |-> layers, t |-> t, l1DecayLoss |-> l1, l2DecayLoss |-> l2]

RECURSIVE UpdateFrom(_, _, _)
\* the loop over pgList from response i on; t.gsum[i] panics when it does not exist
UpdateFrom(pgList, i, ps) ==
  IF i > Len(pgList) THEN ps
  ELSE LET \* the pass after response i was updated to r
           Updated(r) ==
             Pass(TRUE, WithResponseVolume(ps.layers, pgList[i], r.vol),
                  [ps.t EXCEPT !.gsum[i] = r.gsumi, !.xsum[i] = r.xsumi],
                  ps.l1DecayLoss + r.l1DecayLoss, ps.l2DecayLoss + r.l2DecayLoss)
           \* one turn of the loop: response i, whose tensor is vol
           Turn(vol) ==
             IF Len(vol.w) = 0 THEN UpdateFrom(pgList, i + 1, ps)
             ELSE IF i > Len(ps.t.gsum) \/ i > Len(ps.t.xsum) THEN [ps EXCEPT !.ok = FALSE]
             ELSE UpdateFrom(pgList, i + 1,
                    Updated(UpdateResponse(ps.t.opts, ps.t.k, pgList[i], vol,
                                           ps.t.gsum[i], ps.t.xsum[i])))
       IN Turn(ResponseVolume(ps.layers, pgList[i]))

\* the update pass of Train: "if t.k%t.opts.BatchSize == 0 { ... }"
UpdatePass(layers, t) ==
  LET Over(pgList) ==
        UpdateFrom(pgList, 1,
          Pass(TRUE, layers,
               IF AllocatesAccumulators(t)
                 THEN WithAccumulators(t, [i \in 1..Len(pgList) |->
                                             Len(ResponseVolume(layers, pgList[i]).w)])
                 ELSE t,
               0, 0))
  IN Over(GetResponse(layers))

(***************************************************************************)
(* Loss functions                                                          *)
(***************************************************************************)
\* A LossFunc is any func(net Network) float64.  LabeledLossFunc(label) and
\* RegressionLossFunc(y) are the two the package supplies; a caller may pass
\* its own.  The caller's function modelled here reads the parameter responses
\* with Network.GetResponse(), adds its own gradient to every entry (the
\* values of grads, read cyclically, response after response) and returns 0.
LabeledLossFunc(label) == [kind |-> "labeled", label |-> label, y |-> <<>>, grads |-> <<>>]
RegressionLossFunc(y) == [kind |-> "regression", label |-> 0, y |-> y, grads |-> <<>>]
CallerLossFunc(grads) == [kind |-> "caller", label |-> 0, y |-> <<>>, grads |-> grads]

RECURSIVE AddGradFrom(_, _, _, _)
AddGradFrom(layers, pgList, i, grads) ==
  IF i > Len(pgList) THEN layers
  ELSE LET \* the tensor vol with the gradients add added to its gradient entries
           Added(vol, add) ==
             [vol EXCEPT !.dw = [j \in 1..Len(vol.dw) |-> vol.dw[j] + add[j]]]
           \* one turn of the caller's loop: response i, whose tensor is vol
           Turn(vol) ==
             AddGradFrom(WithResponseVolume(layers, pgList[i],
                           Added(vol, Gaussian(Len(vol.dw), Rotate(grads, i - 1)))),
                         pgList, i + 1, grads)
       IN Turn(ResponseVolume(layers, pgList[i]))

\* lossFunc(t.net)
RunLossFunc(lossFunc, layers, heap) ==
  CASE lossFunc.kind = "labeled" -> Backward(layers, heap, lossFunc.label)
    [] lossFunc.kind = "regression" -> MultiDimensionalLoss(layers, heap, lossFunc.y)
    [] OTHER -> NetCall(TRUE, AddGradFrom(layers, GetResponse(layers), 1, lossFunc.grads),
                        heap, 0, <<>>, <<>>, <<>>)

(***************************************************************************)
(* trainer.Train                                                           *)
(***************************************************************************)
\* The outcome of Train: stage is how far the call came ("forward", "loss":
\* the panic happened there; "update": it happened in the update pass;
\* "returned"), updated whether it entered the update pass.  The durations
\* of TrainingResults are left out.
Trained(stage, layers, heap, t, updated, fwd, loss, l1, l2) ==
  [stage |-> stage, layers |-> layers, heap |-> heap, t |-> t, updated |-> updated,
   forward |-> fwd, loss |-> loss,
   results |-> [L1DecayLoss |-> l1, L2DecayLoss |-> l2, CostLost |-> loss.ret,
                TotalLoss |-> loss.ret + l1 + l2]]

Train(t, layers, heap, vol, lossFunc) ==
  LET \* the update pass came to ps
      AfterUpdate(fwd, loss, ps) ==
        Trained(IF ps.ok THEN "returned" ELSE "update", ps.layers, loss.heap, ps.t, TRUE,
                fwd, loss, ps.l1DecayLoss, ps.l2DecayLoss)
      \* t.k++ made the trainer t1
      AfterCount(t1, fwd, loss) ==
        IF ~UpdateDue(t1.k, t1.opts.BatchSize)
          THEN Trained("returned", loss.layers, loss.heap, t1, FALSE, fwd, loss, 0, 0)
          ELSE AfterUpdate(fwd, loss, UpdatePass(loss.layers, t1))
      \* lossFunc(t.net) came to loss
      AfterLoss(fwd, loss) ==
        IF ~loss.ok THEN Trained("loss", loss.layers, loss.heap, t, FALSE, fwd, loss, 0, 0)
        ELSE AfterCount([t EXCEPT !.k = t.k + 1], fwd, loss)
      \* t.net.Forward(vol, true) came to fwd
      AfterForward(fwd) ==
        IF ~fwd.ok THEN Trained("forward", fwd.layers, fwd.heap, t, FALSE, fwd, fwd, 0, 0)
        ELSE AfterLoss(fwd, RunLossFunc(lossFunc, fwd.layers, fwd.heap))
  IN AfterForward(Forward(layers, heap, vol, TRUE))

(***************************************************************************)
(* The inputs of the exploration                                           *)
(***************************************************************************)
\* the dimensions the input layer declares
InDim == NewDimensions(1, 1, 2)

InputDef == LayerDef(Input, InDim, NoActivation, NilConf, NilConf, NilConf)

\* a fully connected definition with neurons neurons that declares Output out
FcDef(neurons, out, activation, dropout) ==
  LayerDef(FullyConnected, out, activation, dropout, NilConf,
           NewFullyConnectedLayerConfig(neurons))

\* the definitions the lists of Spec are made of
Defs ==
  { InputDef,
    FcDef(2, NewDimensions(1, 1, 2), NoActivation, NilConf),
    FcDef(1, NewDimensions(1, 1, 3), NoActivation, NilConf),
    FcDef(1, NewDimensions(1, 1, 1), ReLU, NilConf),
    LayerDef(ReLU, NewDimensions(1, 1, 2), NoActivation, NilConf, NilConf, NilConf),
    LayerDef(SoftMax, NoDim, NoActivation, NilConf, NilConf, NewSoftmaxLayerConfig(2)),
    LayerDef(SVM, NoDim, NoActivation, NilConf, NilConf, NewSVMLayerConfig(2)),
    LayerDef(Regression, NoDim, NoActivation, NilConf, NilConf, NewRegressionLayerConfig(1)) }

\* every list of 1..n definitions drawn from D
ListsOver(D, n) == UNION {[1..m -> D] : m \in 1..n}

DefLists == ListsOver(Defs, MaxDefs)

\* what the random source yields during construction
RandStreams == {<<10, -10, 0>>}

\* the tensors a caller feeds the network: the declared input dimensions
InputVolumes == {[dim |-> InDim, w |-> w, dw |-> Zeros(DimSize(InDim))] :
                   w \in {<<10, -20>>}}

\* the option sets of the trainers
OptionSets ==
  {Options(m, 5, 0, 0, b, mom, 9, 1, 9, 9) : m \in Methods, b \in 1..MaxBatch, mom \in {0, 9}}
  \cup {Options(SGD, 5, 10, 10, b, mom, 9, 1, 9, 9) : b \in 1..MaxBatch, mom \in {0, 9}}

\* the gradients a caller's loss function adds
GradStreams == {<<10, -20, 0>>}

(***************************************************************************)
(* The state: one client that builds a network from a definition list,     *)
(* runs it, and trains it.                                                 *)
(***************************************************************************)
VARIABLES
  vols,     \* the tensors the client holds: dimensions and the addresses of both arrays
  defs,     \* the definition list the client passes to NewNetwork
  net,      \* what NewNetwork returned: status "none" before the call
  heap,     \* the tensors of the last Forward; address 1 is the caller's
            \* (for a client of package volume: the arrays behind its tensors)
  trainer,  \* the trainer (status "none" before NewTrainer) 
  call      \* the last call the client made and how it ended

vars == <<vols, defs, net, heap, trainer, call>>

NoTrainer == [status |-> "none", t |-> NewTrainer(<<NoLayer>>, Options(SGD, 0, 0, 0, 1, 0, 0, 0, 0, 0))]

\* op: the call; panicked: it did not return; received, returned: the tensor
\* each layer's Forward was given and gave back in the call's Forward; ret: what
\* the call returned (an address for Forward, a loss for Backward); visited:
\* the layers whose Backward ran, in order; label, lossFunc: the arguments;
\* stage, updated, results: of a Train call; before: the layers when the call
\* began; consumed: the layers as the update pass of a Train call found them
NoCall ==
  [op |-> "none", panicked |-> FALSE, received |-> <<>>, returned |-> <<>>, ret |-> 0,
   visited |-> <<>>, label |-> 0, lossFunc |-> CallerLossFunc(<<>>), stage |-> "",
   updated |-> FALSE,
   results |-> [L1DecayLoss |-> 0, L2DecayLoss |-> 0, CostLost |-> 0, TotalLoss |-> 0],
   before |-> <<>>, consumed |-> <<>>]

Init ==
  /\ defs \in DefLists
  /\ vols = <<>>
  /\ net = NetResult("none", <<>>)
  /\ heap = <<>>
  /\ trainer = NoTrainer
  /\ call = NoCall

\* a panic unwinds the client: nothing runs after it
Running == net.status = "ok" /\ ~call.panicked

NewNetworkCall ==
  /\ net.status = "none"
  /\ \E rnd \in RandStreams :
       /\ net' = NewNetwork(defs, rnd)
       /\ call' = [NoCall EXCEPT !.op = "NewNetwork", !.panicked = (net'.status = "panic")]
  /\ UNCHANGED <<vols, defs, heap, trainer>>

NewTrainerCall ==
  /\ Running
  /\ trainer.status = "none"
  /\ \E opts \in OptionSets :
       trainer' = [status |-> "ok", t |-> NewTrainer(net.layers, opts)]
  /\ call' = [NoCall EXCEPT !.op = "NewTrainer"]
  /\ UNCHANGED <<vols, defs, net, heap>>

\* a Forward call with one of the tensors of volumes
ForwardOf(volumes) ==
  /\ Running
  /\ trainer.status = "none"
  /\ \E v \in volumes, training \in BOOLEAN :
       \E r \in {Forward(net.layers, <<v>>, 1, training)} :
          /\ net' = [net EXCEPT !.layers = r.layers]
          /\ heap' = r.heap
          /\ call' = [NoCall EXCEPT !.op = "Forward", !.panicked = ~r.ok,
                                    !.received = r.received, !.returned = r.returned,
                                    !.ret = r.ret, !.before = net.layers]
  /\ UNCHANGED <<vols, defs, trainer>>

ForwardCall == ForwardOf(InputVolumes)

\* the labels in range of the final layer
Labels(layers) == 0..(DimSize(layers[Len(layers)].output) - 1)

BackwardCall ==
  /\ Running
  /\ call.op = "Forward"
  /\ \E label \in Labels(net.layers) :
       \E r \in {Backward(net.layers, heap, label)} :
          /\ net' = [net EXCEPT !.layers = r.layers]
          /\ heap' = r.heap
          /\ call' = [NoCall EXCEPT !.op = "Backward", !.panicked = ~r.ok,
                                    !.ret = r.ret, !.visited = r.backward,
                                    !.label = label, !.before = net.layers]
  /\ UNCHANGED <<vols, defs, trainer>>

\* the loss functions a client passes to Train
LossFuncs(layers) ==
  {LabeledLossFunc(label) : label \in Labels(layers)}
  \cup {RegressionLossFunc([i \in 1..DimSize(layers[Len(layers)].output) |-> y]) : y \in {10}}
  \cup {CallerLossFunc(g) : g \in GradStreams}

TrainCall ==
  /\ Running
  /\ trainer.status = "ok"
  /\ trainer.t.k < MaxTrain
  /\ \E v \in InputVolumes, lossFunc \in LossFuncs(net.layers) :
       \E r \in {Train(trainer.t, net.layers, <<v>>, 1, lossFunc)} :
          /\ net' = [net EXCEPT !.layers = r.layers]
          /\ heap' = r.heap
          /\ trainer' = [trainer EXCEPT !.t = r.t]
          /\ call' = [NoCall EXCEPT !.op = "Train", !.panicked = (r.stage # "returned"),
                                    !.received = r.forward.received,
                                    !.returned = r.forward.returned,
                                    !.visited = r.loss.backward,
                                    !.lossFunc = lossFunc, !.stage = r.stage,
                                    !.updated = r.updated, !.results = r.results,
                                    !.before = net.layers,
                                    !.consumed = IF r.updated THEN r.loss.layers ELSE <<>>]
  /\ UNCHANGED <<vols, defs>>

Next ==
  \/ NewNetworkCall
  \/ NewTrainerCall
  \/ ForwardCall
  \/ BackwardCall
  \/ TrainCall

Spec == Init /\ [][Next]_vars

(***************************************************************************)
(* Construction alone, over the definitions of every layer type            *)
(***************************************************************************)
\* a definition of type with the given Output and configuration
TypedDef(type, out, conf) == LayerDef(type, out, NoActivation, NilConf, NilConf, conf)

BuildDefs ==
  { InputDef,
    FcDef(2, NewDimensions(1, 1, 2), NoActivation, NilConf),
    \* declares an Output that is not the 1x1x1 the layer produces
    FcDef(1, NewDimensions(1, 1, 3), NoActivation, NilConf),
    FcDef(1, NewDimensions(1, 1, 1), ReLU, NilConf),
    FcDef(2, NewDimensions(1, 1, 2), NoActivation, DropoutConfigPtr(5)),
    FcDef(2, NewDimensions(1, 1, 2), Sigmoid, DropoutConfigPtr(5)),
    \* an Activation that is no activation, and a head without its configuration
    FcDef(2, NewDimensions(1, 1, 2), Pool, NilConf),
    BareDef(SoftMax, NilConf),
    LayerDef(FullyConnected, NewDimensions(1, 1, 2), Maxout, NilConf, MaxoutConfigPtr(2),
             NewFullyConnectedLayerConfig(2)),
    \* a 1x1 kernel, stride 2, padding 1: two filters
    TypedDef(Conv, NewDimensions(1, 1, 2),
             WithSx(WithStride(WithPadding(NewConvLayerConfig(2), 1), 2), 1)),
    TypedDef(Pool, NewDimensions(1, 1, 2), NewPoolLayerConfig(1)),
    TypedDef(Sigmoid, NewDimensions(1, 1, 2), NilConf),
    TypedDef(Tanh, NewDimensions(1, 1, 2), NilConf),
    TypedDef(LocalResponseNorm, NewDimensions(1, 1, 2), NilConf),
    BareDef(SoftMax, NewSoftmaxLayerConfig(2)),
    BareDef(SVM, NewSVMLayerConfig(2)),
    BareDef(Regression, NewRegressionLayerConfig(1)) }

BuildLists == ListsOver(BuildDefs, MaxDefs)

InitBuild ==
  /\ defs \in BuildLists
  /\ vols = <<>>
  /\ net = NetResult("none", <<>>)
  /\ heap = <<>>
  /\ trainer = NoTrainer
  /\ call = NoCall

NextBuild == NewNetworkCall

SpecBuild == InitBuild /\ [][NextBuild]_vars

(***************************************************************************)
(* Properties                                                              *)
(***************************************************************************)
\* C1: on a network NewNetwork returned without error, Forward of an input of
\* the declared dimensions followed by Backward(label), label in range of the
\* final layer, never fails: neither call panics.
C1_ForwardBackwardNeverFail ==
  (net.status = "ok" /\ call.op \in {"Forward", "Backward"}) => ~call.panicked

\* C2: network.Forward threads the tensor through the layers: layer 0
\* receives the caller's tensor (address 1), every later layer receives the
\* tensor the layer before it returned in the same call, and the caller gets
\* what the last layer returned.
C2_ForwardThreadsOutputs ==
  (call.op = "Forward" /\ ~call.panicked) =>
    /\ call.received[1] = 1
    /\ \A i \in 2..Len(call.received) : call.received[i] = call.returned[i - 1]
    /\ call.ret = call.returned[Len(call.returned)]

\* C3: in every Train call with LabeledLossFunc or RegressionLossFunc, the
\* loss function runs Backward on the layers that precede the head, last
\* first, and Train goes on to count the call.
C3_LossFuncRunsBackward ==
  (call.op = "Train" /\ call.lossFunc.kind \in {"labeled", "regression"}) =>
    /\ call.stage \in {"update", "returned"}
    /\ call.visited = [i \in 1..(Len(net.layers) - 1) |-> Len(net.layers) - i]

\* a list that passes the validation the specification describes
Validated(ds) ==
  Len(ds) >= 3 /\ ds[1].Type = Input /\ IsLossType(ds[Len(ds)].Type)

\* C4: for every definition list that passes validation, NewNetwork builds,
\* without a failure, a network with one layer per definition of the expansion.
C4_ValidatedListsAreBuilt ==
  (net.status # "none" /\ Validated(defs)) =>
    /\ net.status = "ok"
    /\ Len(net.layers) = Len(ActivateLayers(defs).defs)

\* C5: in every constructed network the input dimensions of layer i > 0 are
\* the output dimensions layer i-1 produces.
C5_InputIsPreviousOutput ==
  net.status = "ok" =>
    \A i \in 2..Len(net.layers) :
      DefWithInput(ActivateLayers(defs).defs, i).Input = net.layers[i - 1].output

\* C6: NewNetwork returns an error and no network for every list with fewer
\* than three definitions, or whose first is not Input, or with no SoftMax,
\* SVM or Regression definition.
C6_InvalidListsAreRejected ==
  (/\ net.status # "none"
   /\ \/ Len(defs) < 3
      \/ defs[1].Type # Input
      \/ \A i \in 1..Len(defs) : ~IsLossType(defs[i].Type)) =>
    net.status = "error" /\ net.layers = <<>>

\* the parameter values and the gradients of the responses of GetResponse()
ParamsOf(layers) ==
  [i \in 1..Len(GetResponse(layers)) |-> ResponseVolume(layers, GetResponse(layers)[i]).w]

GradsOf(layers) ==
  [i \in 1..Len(GetResponse(layers)) |-> ResponseVolume(layers, GetResponse(layers)[i]).dw]

\* the last call was a Train call that came as far as t.k++
Counted == call.op = "Train" /\ call.stage \in {"update", "returned"}

\* C7: k counts the Train calls from 1; the update pass runs on exactly the
\* Train calls where k mod batchSize = 0, and a Train call without an update
\* pass leaves every parameter value of every layer as it was.
C7_UpdateEveryBatchSizeCalls ==
  /\ Counted =>
       /\ trainer.t.k >= 1
       /\ call.updated <=> (trainer.t.k % trainer.t.opts.BatchSize = 0)
  /\ (call.op = "Train" /\ ~call.updated) => ParamsOf(net.layers) = ParamsOf(call.before)

\* the third Train call of a trainer of batch size 2 returned: the second ran
\* the update pass, this one did not, and the network has parameters
C7_Witness ==
  /\ call.op = "Train" /\ call.stage = "returned"
  /\ trainer.t.opts.BatchSize = 2 /\ trainer.t.k = 3
  /\ ~call.updated
  /\ Len(ParamsOf(net.layers)) > 0
  /\ ParamsOf(net.layers) = ParamsOf(call.before)

\* C8: when a Train call that ran an update pass has returned, every
\* gradient entry of every parameter response of the network is 0.
C8_GradientsZeroAfterUpdate ==
  (call.op = "Train" /\ call.updated /\ call.stage = "returned") =>
    \A i \in 1..Len(GradsOf(net.layers)) :
      \A j \in 1..Len(GradsOf(net.layers)[i]) : GradsOf(net.layers)[i][j] = 0

\* an update pass that found a gradient other than 0 has returned
C8_Witness ==
  /\ call.op = "Train" /\ call.updated /\ call.stage = "returned"
  /\ \E i \in 1..Len(GradsOf(call.consumed)) :
       \E j \in 1..Len(GradsOf(call.consumed)[i]) : GradsOf(call.consumed)[i][j] # 0

\* C9: after any number of update passes the trainer holds exactly one
\* velocity accumulator per parameter response, of the size of the response,
\* and one secondary accumulator per response (of that size for Adam and
\* Adadelta, empty otherwise); no update pass indexes a missing accumulator.
C9_AccumulatorsAllocatedOnce ==
  (call.op = "Train" /\ call.updated) =>
    /\ call.stage = "returned"
    /\ Len(trainer.t.gsum) = Len(ParamsOf(net.layers))
    /\ Len(trainer.t.xsum) = Len(ParamsOf(net.layers))
    /\ \A i \in 1..Len(trainer.t.gsum) :
         Len(trainer.t.gsum[i]) = Len(ParamsOf(net.layers)[i])
    /\ \A i \in 1..Len(trainer.t.xsum) :
         Len(trainer.t.xsum[i]) =
           IF trainer.t.opts.Method \in {Adam, Adadelta}
             THEN Len(ParamsOf(net.layers)[i]) ELSE 0

\* the options of C10: SGD, momentum 0, batch size 1, no decay
PlainSgd(opts) ==
  /\ opts.Method = SGD /\ opts.Momentum = 0 /\ opts.BatchSize = 1
  /\ opts.L1Decay = 0 /\ opts.L2Decay = 0

\* C10: with SGD, momentum 0, batch size 1 and no decay, a Train call
\* changes every parameter p whose gradient is g to p - lr*g.
C10_PlainSgdStep ==
  (call.op = "Train" /\ call.stage = "returned" /\ PlainSgd(trainer.t.opts)) =>
    /\ call.updated
    /\ \A i \in 1..Len(ParamsOf(net.layers)) :
         \A j \in 1..Len(ParamsOf(net.layers)[i]) :
           ParamsOf(net.layers)[i][j] =
             ParamsOf(call.before)[i][j]
               - FMul(trainer.t.opts.LearningRate, GradsOf(call.consumed)[i][j])

\* the second such Train call returned, having found a gradient other than 0
C10_Witness ==
  /\ call.op = "Train" /\ call.stage = "returned" /\ PlainSgd(trainer.t.opts)
  /\ trainer.t.k = 2
  /\ \E i \in 1..Len(GradsOf(call.consumed)) :
       \E j \in 1..Len(GradsOf(call.consumed)[i]) :
         /\ GradsOf(call.consumed)[i][j] # 0
         /\ ParamsOf(net.layers)[i][j] # ParamsOf(call.before)[i][j]

(***************************************************************************)
(* The methods of network on receivers that end in a head.  NewNetwork     *)
(* builds none (its expansion leaves the implicit fully connected          *)
(* definition without an Output), so the receivers are assembled by the    *)
(* loop of NewNetwork from lists that spell every definition out.          *)
(***************************************************************************)
\* the input definition, some definitions of layers between, and a last
\* definition: one of the three heads, or a layer that is no head
HeadLists ==
  LET MiddleDefs ==
        { FcDef(2, NewDimensions(1, 1, 2), NoActivation, NilConf),
          TypedDef(ReLU, NewDimensions(1, 1, 2), NilConf) }
      LastDefs ==
        { TypedDef(SoftMax, NoDim, NewSoftmaxLayerConfig(2)),
          TypedDef(SVM, NoDim, NewSVMLayerConfig(2)),
          TypedDef(Regression, NoDim, NewRegressionLayerConfig(2)),
          FcDef(2, NewDimensions(1, 1, 2), NoActivation, NilConf) }
  IN {<<InputDef>> \o m \o <<l>> :
        m \in ListsOver(MiddleDefs, MaxDefs - 2), l \in LastDefs}

\* the tensors fed to them: ties and distinct scores
HeadVolumes ==
  {[dim |-> InDim, w |-> <<a, b>>, dw |-> Zeros(DimSize(InDim))] :
     a \in {-10, 0, 10}, b \in {-10, 0, 10}}

GetPredictionCall ==
  /\ Running
  /\ \E r \in {GetPrediction(net.layers, heap)} :
       call' = [NoCall EXCEPT !.op = "GetPrediction", !.panicked = ~r.ok, !.ret = r.ret,
                              !.before = net.layers]
  /\ UNCHANGED <<vols, defs, net, heap, trainer>>

InitHeads ==
  /\ defs \in HeadLists
  /\ vols = <<>>
  /\ \E rnd \in RandStreams : net = InstantiateFrom(defs, 1, <<>>, rnd)
  /\ heap = <<>>
  /\ trainer = NoTrainer
  /\ call = NoCall

NextHeads ==
  \/ ForwardOf(HeadVolumes)
  \/ BackwardCall
  \/ GetPredictionCall

SpecHeads == InitHeads /\ [][NextHeads]_vars

ArgMaxes ==
  LET p == heap[net.layers[Len(net.layers)].outVol].w
  IN {i \in 0..(Len(p) - 1) : \A j \in 1..Len(p) : p[i + 1] >= p[j]}

\* C12: GetPrediction fails when the final layer is not SoftMax; otherwise,
\* after a Forward, it returns the smallest index at which the SoftMax
\* output is largest.
C12_PredictionIsFirstArgMax ==
  call.op = "GetPrediction" =>
    IF net.layers[Len(net.layers)].type # SoftMax THEN call.panicked
    ELSE heap # <<>> => (~call.panicked /\ call.ret \in ArgMaxes /\ \A i \in ArgMaxes : call.ret <= i)

\* a prediction was returned for an output that is largest at two indices
C12_Witness ==
  /\ call.op = "GetPrediction" /\ ~call.panicked
  /\ net.layers[Len(net.layers)].type = SoftMax
  /\ Cardinality(ArgMaxes) = 2
  /\ call.ret = 0

(***************************************************************************)
(* A client of package volume: it constructs a tensor, reads or writes it  *)
(* through the accessors, and clones it.  The heap holds the arrays, a     *)
(* tensor the addresses of its two arrays.                                 *)
(***************************************************************************)
MaxDim == 2

VolumeDims == {NewDimensions(x, y, z) : x \in 1..MaxDim, y \in 1..MaxDim, z \in 1..MaxDim}

\* Options as the option functions leave it: any of WithZeros,
\* WithInitialValue(2.0) and WithWeights of the first k of 1.0, 2.0, ...
VolumeOptions ==
  {VolOpts(o.HasInitialValue, o.Zero, o.InitialValue, [i \in 1..k |-> 10 * i]) :
     o \in {NoVolOpts, WithZeros, WithInitialValue(20)}, k \in 0..MaxDim}

PositionalOps == {"Get", "Set", "Add", "Mult", "GetGrad", "SetGrad", "AddGrad"}
ByIndexOps ==
  {"GetByIndex", "SetByIndex", "MultByIndex", "GetGradByIndex", "SetGradByIndex", "AddGradByIndex"}
ReadOps == {"Get", "GetGrad", "GetByIndex", "GetGradByIndex"}

\* op, panicked, ret: the call and how it ended; args: its arguments; wrote: a
\* write was made since the construction; before: the heap when it began
VolCall(op, panicked, ret, args, wrote, before) ==
  [op |-> op, panicked |-> panicked, ret |-> ret, args |-> args, wrote |-> wrote,
   before |-> before]

\* the tensor behind a Volume of the client
Load(v) == [dim |-> v.dim, w |-> heap[v.w], dw |-> heap[v.dw]]

InitVolume ==
  /\ vols = <<>>
  /\ defs = <<>>
  /\ net = NetResult("none", <<>>)
  /\ heap = <<>>
  /\ trainer = NoTrainer
  /\ call = VolCall("none", FALSE, 0, <<>>, FALSE, <<>>)

\* a tensor in two arrays of its own
Allocated(t, op, args) ==
  /\ heap' = heap \o <<t.w, t.dw>>
  /\ vols' = Append(vols, [dim |-> t.dim, w |-> Len(heap) + 1, dw |-> Len(heap) + 2])
  /\ call' = VolCall(op, FALSE, Len(vols) + 1, args, call.wrote, heap)

NewVolumeCall ==
  /\ vols = <<>>
  /\ ~call.panicked
  /\ \E dim \in VolumeDims, opts \in VolumeOptions, rnd \in RandStreams :
       LET args == [dim |-> dim, opts |-> opts]
       IN IF NewVolumePanics(dim, opts)
            THEN /\ call' = VolCall("NewVolume", TRUE, 0, args, FALSE, heap)
                 /\ UNCHANGED <<vols, heap>>
            ELSE Allocated(NewVolume(dim, opts, rnd), "NewVolume", args)
  /\ UNCHANGED <<defs, net, trainer>>

\* a behaviour reads once, directly after the construction, or writes once
CanAccess(op) ==
  /\ ~call.panicked
  /\ call.op \notin ReadOps
  /\ IF op \in ReadOps THEN call.op = "NewVolume" ELSE ~call.wrote

\* the accessor op on tensor k at the linear index
Accessed(k, op, index, args) ==
  /\ \E r \in {Access(Load(vols[k]), op, index, args.val)} :
       /\ heap' = IF r.ok THEN [heap EXCEPT ![vols[k].w] = r.w, ![vols[k].dw] = r.dw] ELSE heap
       /\ call' = VolCall(op, ~r.ok, r.ret, args, op \notin ReadOps, heap)
  /\ UNCHANGED <<vols, defs, net, trainer>>

\* Get, Set, Add, Mult, GetGrad, SetGrad, AddGrad
AccessCall ==
  \E k \in 1..Len(vols), op \in PositionalOps :
    /\ CanAccess(op)
    /\ \E x \in -1..vols[k].dim.X, y \in -1..vols[k].dim.Y, d \in -1..vols[k].dim.Z :
      Accessed(k, op, getIndex(vols[k].dim, x, y, d),
               [vol |-> k, x |-> x, y |-> y, d |-> d,
                index |-> getIndex(vols[k].dim, x, y, d), val |-> 15])

\* GetByIndex, SetByIndex, MultByIndex, GetGradByIndex, SetGradByIndex, AddGradByIndex
AccessByIndexCall ==
  \E k \in 1..Len(vols), op \in ByIndexOps :
    /\ CanAccess(op)
    /\ \E index \in -1..DimSize(vols[k].dim) :
      Accessed(k, op, index, [vol |-> k, x |-> 0, y |-> 0, d |-> 0, index |-> index, val |-> 15])

\* Clone and CloneAndZero of the first tensor
CloneCall ==
  /\ Len(vols) = 1
  /\ ~call.panicked
  /\ call.op \notin ReadOps
  /\ \/ Allocated(Clone(Load(vols[1])), "Clone", [vol |-> 1])
     \/ Allocated(CloneAndZero(Load(vols[1])), "CloneAndZero", [vol |-> 1])
  /\ UNCHANGED <<defs, net, trainer>>

NextVolume ==
  \/ NewVolumeCall
  \/ AccessCall
  \/ AccessByIndexCall
  \/ CloneCall

SpecVolume == InitVolume /\ [][NextVolume]_vars

\* the coordinates inside the dimensions
Coordinates(dim) ==
  {<<x, y, d>> : x \in 0..(dim.X - 1), y \in 0..(dim.Y - 1), d \in 0..(dim.Z - 1)}

\* C13: on a tensor of size N the index (width*y + x)*depth + d maps the
\* coordinates inside the dimensions one-to-one onto 0..N-1.
C13_IndexIsBijection ==
  \A k \in 1..Len(vols) :
    LET dim == vols[k].dim
        Index(c) == getIndex(dim, c[1], c[2], c[3])
    IN /\ {Index(c) : c \in Coordinates(dim)} = 0..(DimSize(dim) - 1)
       /\ Cardinality({Index(c) : c \in Coordinates(dim)}) = Cardinality(Coordinates(dim))
       /\ Len(heap[vols[k].w]) = DimSize(dim)

\* a positional access reached the last entry of a tensor that is not square
C13_Witness ==
  /\ call.op \in PositionalOps /\ ~call.panicked
  /\ vols[call.args.vol].dim.X # vols[call.args.vol].dim.Y
  /\ <<call.args.x, call.args.y, call.args.d>> \in Coordinates(vols[call.args.vol].dim)
  /\ call.args.index = DimSize(vols[call.args.vol].dim) - 1
  /\ call.args.index > 1

\* C14: with coordinates inside the dimensions, Get after Set(v) returns v and
\* GetGrad after SetGrad(g) returns g; Add and AddGrad change the addressed
\* entry by the amount; no other entry changes, a value operation changes no
\* gradient and a gradient operation no value.
C14_AccessorsRoundTrip ==
  (/\ call.op \in {"Set", "Add", "SetGrad", "AddGrad"}
   /\ <<call.args.x, call.args.y, call.args.d>> \in Coordinates(vols[call.args.vol].dim)) =>
    LET a == call.args
        v == vols[a.vol]
        i == getIndex(v.dim, a.x, a.y, a.d) + 1
        w0 == call.before[v.w]
        dw0 == call.before[v.dw]
        w1 == heap[v.w]
        dw1 == heap[v.dw]
    IN /\ ~call.panicked
       /\ call.op = "Set" => Access(Load(v), "Get", i - 1, 0) = [ok |-> TRUE, ret |-> a.val, w |-> w1, dw |-> dw1]
       /\ call.op = "SetGrad" => Access(Load(v), "GetGrad", i - 1, 0) = [ok |-> TRUE, ret |-> a.val, w |-> w1, dw |-> dw1]
       /\ call.op = "Add" => w1[i] = w0[i] + a.val
       /\ call.op = "AddGrad" => dw1[i] = dw0[i] + a.val
       /\ call.op \in {"Set", "Add"} => dw1 = dw0 /\ \A j \in 1..Len(w0) : j # i => w1[j] = w0[j]
       /\ call.op \in {"SetGrad", "AddGrad"} => w1 = w0 /\ \A j \in 1..Len(dw0) : j # i => dw1[j] = dw0[j]
       /\ Len(w1) = Len(w0) /\ Len(dw1) = Len(dw0)

\* Add reached an entry that was not 0, among others that were not 0
C14_Witness ==
  /\ call.op = "Add" /\ ~call.panicked
  /\ <<call.args.x, call.args.y, call.args.d>> \in Coordinates(vols[call.args.vol].dim)
  /\ call.args.index > 0
  /\ \A j \in 1..(call.args.index + 1) : call.before[vols[call.args.vol].w][j] # 0

\* C15: an accessor, positional or linear, whose linear index is outside
\* 0..size-1 fails and leaves both arrays of the tensor as they were.
C15_OutOfRangeFails ==
  (/\ call.op \in PositionalOps \cup ByIndexOps
   /\ (call.args.index < 0 \/ call.args.index >= DimSize(vols[call.args.vol].dim))) =>
    call.panicked /\ heap = call.before

\* a positional write failed beyond the end of a tensor that holds values
C15_Witness ==
  /\ call.op \in PositionalOps \ ReadOps /\ call.panicked
  /\ call.args.index >= DimSize(vols[call.args.vol].dim)
  /\ \E j \in 1..DimSize(vols[call.args.vol].dim) : heap[vols[call.args.vol].w][j] # 0

\* C16: NewVolume with an explicit array, whatever the other options, fails
\* when the length of the array is not the depth or the width or the height
\* is not 1; otherwise the values are the array and the gradients are 0.
C16_ExplicitWeightsChecked ==
  (call.op = "NewVolume" /\ call.args.opts.Weights # <<>>) =>
    IF \/ Len(call.args.opts.Weights) # call.args.dim.Z
       \/ call.args.dim.X # 1
       \/ call.args.dim.Y # 1
      THEN call.panicked
      ELSE /\ ~call.panicked
           /\ heap[vols[1].w] = call.args.opts.Weights
           /\ heap[vols[1].dw] = Zeros(DimSize(call.args.dim))

\* C17: Clone returns a tensor of the same dimensions with the values of the
\* original and gradients 0, CloneAndZero one with both arrays 0; the arrays
\* of the result are new ones, the original is unchanged, and a later write
\* to one of the two tensors changes nothing in the other.
C17_CloneIsIndependent ==
  /\ call.op \in {"Clone", "CloneAndZero"} =>
       /\ vols[2].dim = vols[1].dim
       /\ heap[vols[2].w] = IF call.op = "Clone" THEN heap[vols[1].w] ELSE Zeros(DimSize(vols[1].dim))
       /\ heap[vols[2].dw] = Zeros(DimSize(vols[1].dim))
       /\ Cardinality({vols[1].w, vols[1].dw, vols[2].w, vols[2].dw}) = 4
       /\ heap[vols[1].w] = call.before[vols[1].w]
       /\ heap[vols[1].dw] = call.before[vols[1].dw]
  /\ (Len(vols) = 2 /\ call.op \in PositionalOps \cup ByIndexOps) =>
       \A k \in {1, 2} \ {call.args.vol} :
         heap[vols[k].w] = call.before[vols[k].w] /\ heap[vols[k].dw] = call.before[vols[k].dw]

\* Clone copied a tensor that holds values and a gradient
C17_Witness ==
  /\ call.op = "Clone"
  /\ \E j \in 1..Len(heap[vols[1].dw]) : heap[vols[1].dw][j] # 0
  /\ \E j \in 1..Len(heap[vols[1].w]) : heap[vols[1].w][j] # 0
  /\ Len(heap[vols[1].w]) > 1

\* The list ActivateLayers returned for ds is out: every definition of ds is
\* in it, in order, and the rest are the fully connected definition before each
\* head, the activation after each definition with an Activation, and the
\* dropout definition after each definition with a Dropout.
Expands(ds, out) ==
  LET Heads(n) == Cardinality({j \in 1..n : IsLossType(ds[j].Type)})
      Acts(n) == Cardinality({j \in 1..n : ds[j].Activation # NoActivation})
      Drops(n) == Cardinality({j \in 1..n : ds[j].Dropout # NilConf})
      \* where the i-th definition of ds is in out
      pos(i) == i + Heads(i) + Acts(i - 1) + Drops(i - 1)
      \* the definition itself, but for the bias the pass writes through its configuration
      Same(a, b) ==
        /\ [a EXCEPT !.LayerConfig = NilConf] = [b EXCEPT !.LayerConfig = NilConf]
        /\ \A f \in DOMAIN b.LayerConfig \ {"PreferredBias"} : a.LayerConfig[f] = b.LayerConfig[f]
  IN /\ Len(out) = Len(ds) + Heads(Len(ds)) + Acts(Len(ds)) + Drops(Len(ds))
     /\ \A i \in 1..Len(ds) :
          /\ Same(out[pos(i)], ds[i])
          /\ IsLossType(ds[i].Type) =>
               out[pos(i) - 1] = BareDef(FullyConnected, NewFullyConnectedLayerConfig(ds[i].LayerConfig.N))
          /\ ds[i].Activation # NoActivation =>
               /\ out[pos(i) + 1].Type = ds[i].Activation
               /\ [out[pos(i) + 1] EXCEPT !.LayerConfig = NilConf] = BareDef(ds[i].Activation, NilConf)
          /\ ds[i].Dropout # NilConf =>
               out[pos(i) + 1 + (Acts(i) - Acts(i - 1))] = BareDef(Dropout, ds[i].Dropout)

Expandable(ds) ==
  \A i \in 1..Len(ds) :
    /\ ds[i].Activation \in {NoActivation, ReLU, Sigmoid, Tanh, Maxout}
    /\ ds[i].Type \in {SoftMax, SVM} =>
         ds[i].LayerConfig.kind \in {"*softMaxLayerConfig", "*svmLayerConfig"}
    /\ ds[i].Type = Regression => ds[i].LayerConfig.kind = "*regressionLayerConfig"

MaxConv == 3

\* the definitions: inputs of width and height up to MaxConv and depth 1 or
\* 2, one or two filters, kernels 1x1 and 2x2, strides 1 and 2, padding 0 and 1
ConvDefs ==
  {[TypedDef(Conv, NewDimensions(1, 1, 1),
             WithSx(WithStride(WithPadding(NewConvLayerConfig(n), pad), stride), sx))
      EXCEPT !.Input = NewDimensions(x, y, z)] :
     x \in 1..MaxConv, y \in 1..MaxConv, z \in {1, 2},
     n \in {1, 2}, sx \in {1, 2}, stride \in {1, 2}, pad \in {0, 1}}

\* the values and the gradients the client writes: 1.0, 2.0, ... or 1.0, -1.0, 2.0, ...
ConvValues(n) ==
  {[i \in 1..n |-> 10 * i], [i \in 1..n |-> IF i % 2 = 1 THEN 5 * (i + 1) ELSE -5 * i]}

InitConv ==
  /\ vols = <<>>
  /\ defs \in {<<d>> : d \in ConvDefs}
  /\ net = NetResult("none", <<>>)
  /\ heap = <<>>
  /\ trainer = NoTrainer
  /\ call = NoCall

NewConvLayerCall ==
  /\ net.status = "none"
  /\ \E rnd \in RandStreams :
       \E r \in {NewConvLayer(defs[1], rnd)} :
         /\ net' = NetResult(IF r.ok THEN "ok" ELSE "panic", <<r.layer>>)
         /\ call' = [NoCall EXCEPT !.op = "NewConvLayer", !.panicked = ~r.ok]
  /\ UNCHANGED <<vols, defs, heap, trainer>>

\* convLayer.Forward on a tensor of the shape of the layer's input
ConvForwardCall ==
  /\ Running
  /\ call.op = "NewConvLayer"
  /\ \E w \in ConvValues(DimSize(net.layers[1].input)) :
       \E r \in {LayerForward(net.layers[1],
                              <<[dim |-> net.layers[1].input, w |-> w,
                                 dw |-> Zeros(DimSize(net.layers[1].input))]>>, 1, FALSE)} :
         /\ net' = [net EXCEPT !.layers = <<r.layer>>]
         /\ heap' = r.heap
         /\ call' = [NoCall EXCEPT !.op = "Forward", !.panicked = ~r.ok, !.ret = r.out,
                                   !.before = net.layers]
  /\ UNCHANGED <<vols, defs, trainer>>

\* the client writes the gradients of the output
SetGradCall ==
  /\ Running
  /\ call.op = "Forward"
  /\ \E dw \in ConvValues(DimSize(net.layers[1].output)) :
       heap' = [heap EXCEPT ![net.layers[1].outVol].dw = dw]
  /\ call' = [NoCall EXCEPT !.op = "SetGrad"]
  /\ UNCHANGED <<vols, defs, net, trainer>>

\* convLayer.Backward
ConvBackwardCall ==
  /\ Running
  /\ call.op = "SetGrad"
  /\ \E r \in {LayerBackward(net.layers[1], heap)} :
       /\ net' = [net EXCEPT !.layers = <<r.layer>>]
       /\ heap' = r.heap
       /\ call' = [NoCall EXCEPT !.op = "Backward", !.panicked = ~r.ok, !.before = net.layers]
  /\ UNCHANGED <<vols, defs, trainer>>

NextConv ==
  \/ NewConvLayerCall
  \/ ConvForwardCall
  \/ SetGradCall
  \/ ConvBackwardCall

SpecConv == InitConv /\ [][NextConv]_vars

\* C19: Forward of the convolution writes at every output depth d and
\* position (ax, ay) the bias of d plus the sum of filter_d(fx, fy, fz) *
\* input(ax*stride - padding + fx, ay*stride - padding + fy, fz) over the
\* kernel offsets whose input position is inside the input.
C19_ForwardIsTheConvolution ==
  (call.op = "Forward" /\ net.layers[1].type = Conv) =>
    LET l == net.layers[1]
        v == heap[l.inVol]
        Product(f, k, ox, oy, fz) ==
          IF ox >= 0 /\ ox < v.dim.X /\ oy >= 0 /\ oy < v.dim.Y
            THEN FMul(f.w[k], v.w[getIndex(v.dim, ox, oy, fz) + 1])
            ELSE 0
        Sum(f, p) ==
          SeqSum([k \in 1..Len(f.w) |->
                    Product(f, k,
                            p.x * l.conf.Stride - l.conf.Padding + Position(f.dim, k - 1).x,
                            p.y * l.conf.Stride - l.conf.Padding + Position(f.dim, k - 1).y,
                            Position(f.dim, k - 1).d)])
    IN /\ ~call.panicked
       /\ \A j \in 1..DimSize(l.output) :
            heap[l.outVol].w[j] =
              l.biases.w[Position(l.output, j - 1).d + 1]
              + Sum(l.filters[Position(l.output, j - 1).d + 1], Position(l.output, j - 1))

\* C20: Backward of the convolution mirrors Forward for every shape of the
\* input, square or not: it addresses the input at the index Forward read,
\* adds input*chainGrad to the gradient of the filter, filter*chainGrad to
\* the gradient of the input and chainGrad to the gradient of the bias, and
\* never addresses the input outside its arrays.
C20_BackwardMirrorsForward ==
  (call.op = "Backward" /\ call.before[1].type = Conv) =>
    LET l == call.before[1]
        Mirrors(g) ==
          /\ heap[l.inVol].dw = g.inDw
          /\ net.layers[1].filters = g.filters
          /\ net.layers[1].biases = g.biases
    IN /\ ~call.panicked
       /\ Mirrors(ConvGradients(l, heap[l.inVol], heap[l.outVol], ForwardRow(heap[l.inVol].dim)))

MaxForward == 3

\* pool layers on inputs of width and height up to MaxConv and depth 1 or 2,
\* kernels 1x1 and 2x2, strides 1 and 2, padding 0 and 1
PoolDefs ==
  {[TypedDef(Pool, NewDimensions(1, 1, 1),
             WithStride(WithPadding(NewPoolLayerConfig(sx), pad), stride))
      EXCEPT !.Input = NewDimensions(x, y, z)] :
     x \in 1..MaxConv, y \in 1..MaxConv, z \in {1, 2},
     sx \in {1, 2}, stride \in {1, 2}, pad \in {0, 1}}

\* maxout layers with 1x1 and wider outputs and groups of 1 and 2 channels
MaxoutDefs ==
  {TypedDef(Maxout, NewDimensions(x, y, z), MaxoutConfigPtr(k)) :
     x \in {1, 2}, y \in {1, 2}, z \in {1, 2}, k \in {1, 2}}

\* dropout layers of one and two elements that drop never, half and always
DropoutDefs ==
  {[TypedDef(Dropout, NewDimensions(1, 1, n), DropoutConfigPtr(p))
      EXCEPT !.Input = NewDimensions(1, 1, n)] : n \in {1, 2}, p \in {0, 5, 10}}

\* the heads on 1..MaxConv scores
HeadDefs ==
  UNION {{[TypedDef(SVM, NoDim, NewSVMLayerConfig(n)) EXCEPT !.Input = NewDimensions(1, 1, n)],
          [TypedDef(SoftMax, NoDim, NewSoftmaxLayerConfig(n)) EXCEPT !.Input = NewDimensions(1, 1, n)],
          [TypedDef(Regression, NoDim, NewRegressionLayerConfig(n))
             EXCEPT !.Input = NewDimensions(1, 1, n)]} : n \in 1..MaxConv}

\* the values the client feeds: those of ConvValues, and 1.0, 5.0, 2.0, 3.0
\* and 1.0, 3.0, 0.5 repeated
LayerValues(n) ==
  ConvValues(n) \cup {[i \in 1..n |-> <<10, 50, 20, 30>>[((i - 1) % 4) + 1]],
                      [i \in 1..n |-> <<10, 30, 5>>[((i - 1) % 3) + 1]]}

\* the shape of the tensor the client hands to Forward
LayerInput(l) ==
  IF l.type = Maxout
    THEN NewDimensions(l.output.X, l.output.Y, l.output.Z * l.conf.GroupSize)
    ELSE l.input

\* the outcomes rand.Float64() < p can have in one Forward on n elements
DropOutcomes(l, training, n) ==
  IF l.type # Dropout \/ ~training THEN {<<>>}
  ELSE {drops \in [1..n -> BOOLEAN] :
          \A i \in 1..n : /\ drops[i] => l.conf.DropoutProbability > 0
                          /\ ~drops[i] => l.conf.DropoutProbability < Scale}

InitLayers ==
  /\ vols = <<>>
  /\ defs \in {<<d>> : d \in PoolDefs \cup MaxoutDefs \cup DropoutDefs \cup HeadDefs}
  /\ net = NetResult("none", <<>>)
  /\ heap = <<>>
  /\ trainer = NoTrainer
  /\ call = NoCall

\* NewPoolLayer, NewMaxoutLayer, NewDropoutLayer, NewSVMLayer, NewSoftmaxLayer
\* or NewRegressionLayer
NewLayerCall ==
  /\ net.status = "none"
  /\ defs[1].Type # Conv
  /\ \E r \in {Instantiate(defs[1], <<>>)} :
       /\ net' = NetResult(IF r.ok THEN "ok" ELSE "panic", <<r.layer>>)
       /\ call' = [NoCall EXCEPT !.op = "NewLayer", !.panicked = ~r.ok]
  /\ UNCHANGED <<vols, defs, heap, trainer>>

\* Forward on a new tensor of the shape the layer takes; call.visited keeps
\* what the earlier Forward calls on the layer were given and returned
\* (training is varied, and a series of calls made, for the dropout layer, the
\* only one whose Forward reads training or what an earlier call left)
LayerForwardCall ==
  /\ Running
  /\ call.op \in {"NewLayer", "Forward"}
  /\ Len(call.visited) < (IF net.layers[1].type = Dropout THEN MaxForward ELSE 1)
  /\ \E w \in LayerValues(DimSize(LayerInput(net.layers[1]))),
        training \in (IF net.layers[1].type = Dropout THEN BOOLEAN ELSE {FALSE}) :
       \E drops \in DropOutcomes(net.layers[1], training, Len(w)) :
         \E r \in {IF net.layers[1].type = Dropout
                     THEN DropoutForward(net.layers[1],
                                         <<[dim |-> LayerInput(net.layers[1]), w |-> w,
                                            dw |-> Zeros(Len(w))]>>, 1, training, drops)
                     ELSE LayerForward(net.layers[1],
                                       <<[dim |-> LayerInput(net.layers[1]), w |-> w,
                                          dw |-> Zeros(Len(w))]>>, 1, training)} :
           /\ net' = [net EXCEPT !.layers = <<r.layer>>]
           /\ heap' = r.heap
           /\ call' = [NoCall EXCEPT !.op = "Forward", !.panicked = ~r.ok, !.ret = r.out,
                                     !.before = net.layers,
                                     !.visited =
                                       Append(call.visited,
                                              [training |-> training, in |-> w,
                                               out |-> IF r.ok THEN r.heap[r.out].w ELSE <<>>])]
  /\ UNCHANGED <<vols, defs, trainer>>

\* the targets of MultiDimensionalLoss: one element too few, as many as the
\* layer has outputs, one too many
Targets(n) == {[i \in 1..m |-> 10 * (i % 2)] : m \in {k \in (n - 1)..(n + 1) : k >= 0}}

\* svmLayer.Loss, softmaxLayer.Loss, regressionLayer.DimensionalLoss and
\* regressionLayer.MultiDimensionalLoss, after Forward
LossCall ==
  /\ Running
  /\ call.op \in {"Forward", "SetGrad"}
  /\ net.layers[1].type \in {SoftMax, SVM, Regression}
  /\ \/ /\ IsLossLayer(net.layers[1])
        /\ \E index \in -1..DimSize(net.layers[1].output) :
             \E r \in {LayerLoss(net.layers[1], heap, index)} :
               /\ heap' = r.heap
               /\ call' = [NoCall EXCEPT !.op = "Loss", !.panicked = ~r.ok, !.ret = r.loss,
                                         !.label = index, !.before = heap]
     \/ /\ IsRegressionLossLayer(net.layers[1])
        /\ \E index \in -1..DimSize(net.layers[1].output), value \in {0, 20} :
             \E r \in {RegressionDimensionalLoss(net.layers[1], heap, index, value)} :
               /\ heap' = r.heap
               /\ call' = [NoCall EXCEPT !.op = "DimensionalLoss", !.panicked = ~r.ok,
                                         !.ret = r.loss, !.label = index, !.received = <<value>>,
                                         !.before = heap]
     \/ /\ IsRegressionLossLayer(net.layers[1])
        /\ \E y \in Targets(DimSize(net.layers[1].output)) :
             \E r \in {RegressionMultiDimensionalLoss(net.layers[1], heap, y)} :
               /\ heap' = r.heap
               /\ call' = [NoCall EXCEPT !.op = "MultiDimensionalLoss", !.panicked = ~r.ok,
                                         !.ret = r.loss, !.received = y, !.before = heap]
  /\ UNCHANGED <<vols, defs, net, trainer>>

NextLayers ==
  \/ NewLayerCall
  \/ LayerForwardCall
  \/ SetGradCall
  \/ ConvBackwardCall
  \/ LossCall

SpecLayers == InitLayers /\ [][NextLayers]_vars

\* the positions inside the input of the kernel window that starts at (x0, y0)
PoolWindow(l, x0, y0) ==
  {p \in (0..(l.input.X - 1)) \X (0..(l.input.Y - 1)) :
     /\ p[1] \in x0..(x0 + l.conf.Sx - 1)
     /\ p[2] \in y0..(y0 + l.conf.Sy - 1)}

\* C21: Forward of the pool layer sets every output (ax, ay, d) to the
\* greatest input value of channel d over the positions inside the input of
\* the window whose top-left corner is (ax*stride - padding, ay*stride -
\* padding), and records as the switch of that output a position of that
\* window that holds the greatest value.
C21_ForwardIsTheWindowMaximum ==
  (call.op = "Forward" /\ net.layers[1].type = Pool) =>
    LET l == net.layers[1]
        v == heap[l.inVol]
        At(p, d) == v.w[getIndex(v.dim, p[1], p[2], d) + 1]
        IsMaximum(a, win, W, d) ==
          W # {} => /\ win \in W
                    /\ At(win, d) = a
                    /\ \A p \in W : At(p, d) <= a
    IN /\ ~call.panicked
       /\ \A n \in 0..(DimSize(l.output) - 1) :
            IsMaximum(heap[l.outVol].w[getIndex(l.output, PoolOrder(l.output, n).x,
                                                PoolOrder(l.output, n).y,
                                                PoolOrder(l.output, n).d) + 1],
                      <<l.switchX[n + 1], l.switchY[n + 1]>>,
                      PoolWindow(l, PoolOrder(l.output, n).x * l.conf.Stride - l.conf.Padding,
                                 PoolOrder(l.output, n).y * l.conf.Stride - l.conf.Padding),
                      PoolOrder(l.output, n).d)

\* C22: after Forward and Backward of the pool layer the gradient of the
\* input at (x, y, d) is the sum of the gradients of the outputs whose
\* recorded winner is (x, y) in channel d, 0 where no window was won; entry n
\* of the switches is the output the loops visit at the count n in both passes.
C22_BackwardRoutesToTheWinners ==
  (call.op = "Backward" /\ call.before[1].type = Pool) =>
    LET l == call.before[1]
        in == heap[l.inVol]
        out == heap[l.outVol]
        Won(n, i) ==
          /\ l.switchX[n + 1] = Position(in.dim, i).x
          /\ l.switchY[n + 1] = Position(in.dim, i).y
          /\ PoolOrder(l.output, n).d = Position(in.dim, i).d
        Grad(p) == out.dw[getIndex(out.dim, p.x, p.y, p.d) + 1]
    IN /\ ~call.panicked
       /\ \A i \in 0..(Len(in.dw) - 1) :
            in.dw[i + 1] =
              SeqSum([n \in 1..DimSize(l.output) |->
                        IF Won(n - 1, i) THEN Grad(PoolOrder(l.output, n - 1)) ELSE 0])

\* C23: Forward of a newly constructed maxout layer with groups of k channels
\* returns at every output position (x, y) and channel i the greatest of the
\* input channels i*k .. i*k+k-1 at (x, y); Backward then gives the winning
\* channel of each group the gradient of the output at (x, y, i) and the other
\* channels of the group the gradient 0.
C23_MaxoutRoutesToTheWinner ==
  LET Channels(l, in, j) ==
        {getIndex(in.dim, Position(l.output, j).x, Position(l.output, j).y,
                  Position(l.output, j).d * l.conf.GroupSize + c) : c \in 0..(l.conf.GroupSize - 1)}
      Greatest(l, in, j, a) ==
        /\ \E c \in Channels(l, in, j) : in.w[c + 1] = a
        /\ \A c \in Channels(l, in, j) : in.w[c + 1] <= a
      Routed(l, in, out, j) ==
        \E c \in Channels(l, in, j) :
          /\ in.w[c + 1] = out.w[j + 1]
          /\ in.dw[c + 1] = out.dw[j + 1]
          /\ \A c2 \in Channels(l, in, j) \ {c} : in.dw[c2 + 1] = 0
  IN /\ (call.op = "Forward" /\ net.layers[1].type = Maxout) =>
          /\ ~call.panicked
          /\ \A j \in 0..(DimSize(net.layers[1].output) - 1) :
               Greatest(net.layers[1], heap[net.layers[1].inVol], j,
                        heap[net.layers[1].outVol].w[j + 1])
     /\ (call.op = "Backward" /\ net.layers[1].type = Maxout) =>
          /\ ~call.panicked
          /\ \A j \in 0..(DimSize(net.layers[1].output) - 1) :
               Routed(net.layers[1], heap[net.layers[1].inVol], heap[net.layers[1].outVol], j)

\* C24: Loss(t) of the SVM layer with t in range returns the sum over the
\* classes i # t of max(0, score[i] - score[t] + 1); the sum is 0 exactly when
\* score[t] exceeds every other score by at least 1 and positive otherwise;
\* each violating class gets the gradient +1 and the true class -1 for each
\* violating class.
C24_SvmLossIsTheHingeSum ==
  (/\ call.op = "Loss"
   /\ net.layers[1].type = SVM
   /\ call.label \in 0..(DimSize(net.layers[1].output) - 1)) =>
    LET w == heap[net.layers[1].inVol].w
        dw == heap[net.layers[1].inVol].dw
        t == call.label + 1
        Hinge(i) == IF w[i] - w[t] + Scale > 0 THEN w[i] - w[t] + Scale ELSE 0
        Others == (1..Len(w)) \ {t}
    IN /\ ~call.panicked
       /\ call.ret = SeqSum([i \in 1..Len(w) |-> IF i = t THEN 0 ELSE Hinge(i)])
       /\ call.ret >= 0
       /\ call.ret = 0 <=> \A i \in Others : w[t] >= w[i] + Scale
       /\ \A i \in Others : dw[i] = IF Hinge(i) > 0 THEN Scale ELSE 0
       /\ dw[t] = -Scale * Cardinality({i \in Others : Hinge(i) > 0})

\* the scores 1.0, 3.0, 0.5 and the true class 0: the loss is 3.5
C24_Witness ==
  /\ call.op = "Loss"
  /\ net.layers[1].type = SVM
  /\ ~call.panicked
  /\ heap[net.layers[1].inVol].w = <<10, 30, 5>>
  /\ call.label = 0
  /\ call.ret = 35
  /\ heap[net.layers[1].inVol].dw = <<-20, 10, 10>>

\* C25: Loss of the softmax and of the SVM layer and DimensionalLoss of the
\* regression layer with an index below 0 or not below the output size, and
\* MultiDimensionalLoss with a target of another length than the output,
\* fail and leave every tensor, the gradients of the input among them, as
\* it was before the call.
C25_RangeFailuresKeepGradients ==
  (\/ /\ call.op \in {"Loss", "DimensionalLoss"}
      /\ call.label \notin 0..(DimSize(net.layers[1].output) - 1)
   \/ /\ call.op = "MultiDimensionalLoss"
      /\ Len(call.received) # DimSize(net.layers[1].output)) =>
    /\ call.panicked
    /\ heap = call.before

\* MultiDimensionalLoss with a target that is too long, on an input whose
\* gradients are not zero
C25_Witness ==
  /\ call.op = "MultiDimensionalLoss"
  /\ Len(call.received) > DimSize(net.layers[1].output)
  /\ call.panicked
  /\ \E i \in 1..Len(heap[net.layers[1].inVol].dw) : heap[net.layers[1].inVol].dw[i] # 0

\* C28: Forward of the dropout layer in inference mode is deterministic: two
\* inference calls on the same input, with any training calls between them,
\* return the same output, every element of which is the input element times
\* the configured drop probability; and an inference call leaves the mask of
\* the dropped elements as it was.
C28_InferenceIsDeterministic ==
  (call.op = "Forward" /\ net.layers[1].type = Dropout) =>
    LET v == call.visited
        p == net.layers[1].conf.DropoutProbability
        Inference == {i \in 1..Len(v) : ~v[i].training}
    IN /\ ~call.panicked
       /\ \A i, j \in Inference : v[i].in = v[j].in => v[i].out = v[j].out
       /\ \A i \in Inference : v[i].out = [k \in 1..Len(v[i].in) |-> FMul(v[i].in[k], p)]
       /\ Len(v) \in Inference => net.layers[1].dropped = call.before[1].dropped

\* inference, a training call that drops an element, inference on the first input
C28_Witness ==
  /\ call.op = "Forward"
  /\ net.layers[1].type = Dropout
  /\ net.layers[1].conf.DropoutProbability = 5
  /\ Len(call.visited) = 3
  /\ ~call.visited[1].training
  /\ call.visited[2].training
  /\ ~call.visited[3].training
  /\ call.visited[1].in = call.visited[3].in
  /\ call.visited[1].out = <<5, 10>>
  /\ \E i \in 1..Len(net.layers[1].dropped) : net.layers[1].dropped[i]

\* C26: the response of the biases of every trainable layer carries the decay
\* multipliers 0, so an update pass counts no bias in the L1 and L2 decay
\* losses, whatever the decay of the trainer, and the batch gradient of a
\* bias is its raw gradient divided by the batch size: under plain SGD a
\* bias b with the gradient g becomes b - lr * (g / batchSize).
C26_BiasesAreNotDecayed ==
  (call.op = "Train" /\ call.updated /\ call.stage = "returned") =>
    LET pg == GetResponse(call.consumed)
        opts == trainer.t.opts
        p == ParamsOf(call.consumed)
        g == GradsOf(call.consumed)
        Bias == {i \in 1..Len(pg) : pg[i].filter = 0}
    IN /\ \A li \in 1..Len(call.consumed) :
            call.consumed[li].type \in {FullyConnected, Conv} =>
              \E i \in Bias : pg[i].layer = li
       /\ \A i \in Bias : pg[i].L1DecayMul = 0 /\ pg[i].L2DecayMul = 0
       /\ call.results.L1DecayLoss =
            SeqSum([i \in 1..Len(pg) |->
                      IF i \in Bias THEN 0
                      ELSE L1Loss(FMul(opts.L1Decay, pg[i].L1DecayMul), p[i], Len(p[i]))])
       /\ call.results.L2DecayLoss =
            SeqSum([i \in 1..Len(pg) |->
                      IF i \in Bias THEN 0
                      ELSE L2Loss(FMul(opts.L2Decay, pg[i].L2DecayMul), p[i], Len(p[i]))])
       /\ (opts.Method = SGD /\ opts.Momentum = 0) =>
            \A i \in Bias : \A j \in 1..Len(p[i]) :
              ParamsOf(net.layers)[i][j] =
                p[i][j] - FMul(opts.LearningRate, FDiv(g[i][j], ToFloat(opts.BatchSize)))

\* an update pass of plain SGD with L1 and L2 decay found a bias other than 0
\* with a gradient other than 0, and weights that are decayed
C26_Witness ==
  /\ call.op = "Train" /\ call.updated /\ call.stage = "returned"
  /\ trainer.t.opts.Method = SGD /\ trainer.t.opts.Momentum = 0
  /\ trainer.t.opts.L1Decay > 0 /\ trainer.t.opts.L2Decay > 0
  /\ call.results.L2DecayLoss > 0
  /\ \E i \in 1..Len(GetResponse(call.consumed)) :
       /\ GetResponse(call.consumed)[i].filter = 0
       /\ \E j \in 1..Len(ParamsOf(call.consumed)[i]) :
            /\ ParamsOf(call.consumed)[i][j] # 0
            /\ GradsOf(call.consumed)[i][j] # 0

\* the gradients the loss function of the last Train call added to response i
PerCall(i) ==
  Gaussian(Len(GradsOf(call.before)[i]), Rotate(call.lossFunc.grads, i - 1))

GetCostLossCall ==
  /\ Running
  /\ trainer.status = "ok"
  /\ \E v \in InputVolumes, index \in Labels(net.layers) :
       \E r \in {GetCostLoss(net.layers, <<v>>, 1, index)} :
         /\ net' = [net EXCEPT !.layers = r.layers]
         /\ heap' = r.heap
         /\ call' = [NoCall EXCEPT !.op = "GetCostLoss", !.panicked = ~r.ok, !.ret = r.ret,
                                   !.label = index, !.before = net.layers,
                                   !.consumed = <<trainer>>]
  /\ UNCHANGED <<vols, defs, trainer>>

NextCost ==
  \/ NewTrainerCall
  \/ TrainCall
  \/ GetCostLossCall

SpecCost == InitHeads /\ [][NextCost]_vars

\* C30: a GetCostLoss call between the Train calls of a batch changes no
\* value and no gradient of a parameter and nothing of the trainer (its
\* count of calls, its accumulators), so the Train call that follows leaves
\* the parameters, their gradients and the trainer as it would have left
\* them without the GetCostLoss call.
C30_GetCostLossKeepsTheTraining ==
  call.op = "GetCostLoss" =>
    LET Same(a, b) ==
          /\ a.stage = b.stage
          /\ ParamsOf(a.layers) = ParamsOf(b.layers)
          /\ GradsOf(a.layers) = GradsOf(b.layers)
          /\ a.t = b.t
    IN /\ ParamsOf(net.layers) = ParamsOf(call.before)
       /\ GradsOf(net.layers) = GradsOf(call.before)
       /\ <<trainer>> = call.consumed
       /\ \A v \in InputVolumes, lossFunc \in LossFuncs(net.layers) :
            Same(Train(trainer.t, net.layers, <<v>>, 1, lossFunc),
                 Train(trainer.t, call.before, <<v>>, 1, lossFunc))

\* GetCostLoss returned a loss after the first Train call of a batch of 2,
\* which left a gradient other than 0
C30_Witness ==
  /\ call.op = "GetCostLoss"
  /\ ~call.panicked
  /\ call.ret > 0
  /\ trainer.t.opts.BatchSize = 2
  /\ trainer.t.k = 1
  /\ \E i \in 1..Len(GradsOf(net.layers)) :
       \E j \in 1..Len(GradsOf(net.layers)[i]) : GradsOf(net.layers)[i][j] # 0

====
